---- MODULE Spec2Model ----
(***************************************************************************)
(* Verification model of the Roo IPC relay core:                           *)
(*   - IpcServer   (packages/ipc/src/ipc-server.ts)                        *)
(*   - RooDaemon   (roo-blessed/roo-daemon.js, the TCP bridge)             *)
(* Each handler of the source is one action; what a handler writes to a    *)
(* socket, emits as an event or logs during one run is recorded in the     *)
(* "last step" output variables (srvSent, srvEvents, dSent, ...).          *)
(***************************************************************************)
EXTENDS Integers, Sequences, FiniteSets, TLC

\* ------------------------------------------------------------------ bounds
NSockets == 2
NPayloads == 2
MaxHistory == 1
MaxEvents == 3
NTicks == 3
MaxQueue == 1
MaxAttempts == 2
TickMs == 3000

Sockets == 1..NSockets
Payloads == 1..NPayloads
ClientIds == {"", "c1", "c2"}

\* ------------------------------------------------------- common constants
Null == "null"
Undefined == "undefined"
Absent == "absent"

\* JavaScript truthiness of the values a clientId can take
Truthy(v) == v \notin {Null, Undefined, Absent, ""}

\* ---------------------------------------------------------------- state
VARIABLES
    sockStatus,     \* IpcServer: transport state of each socket: "new", "open", "closed"
    ipcClients,     \* IpcServer._clients: Map<clientId, Socket> in insertion order
    srvSent,        \* what IpcServer.send wrote during the last handler run
    srvEvents,      \* what IpcServer emitted during the last handler run
    srvTrace,       \* the sends and emits of the last handler run, in program order
    srvLast,        \* the last handler run: its name, socket and argument
    srvBefore,      \* IpcServer._clients as it was when the last handler started
    srvDropped,     \* the sockets of which onMessage has dropped a message
    srvCounts       \* per clientId, the Connect and Disconnect events emitted so far

srvVars == <<sockStatus, ipcClients, srvSent, srvEvents, srvTrace, srvLast, srvBefore,
            srvDropped, srvCounts>>

VARIABLES
    alive,          \* RooDaemon: the process has not died of an uncaught exception
    connected,      \* RooDaemon.connected
    clientId,       \* RooDaemon.clientId
    currentTask,    \* RooDaemon.currentTask
    clients,        \* RooDaemon.clients: Set of downstream sockets
    messageHistory, \* RooDaemon.messageHistory
    messageCache,   \* RooDaemon.messageCache: Map<key, timestamp>
    cacheFill,      \* further messageCache entries, under other keys, all written at time 0
    now,            \* Date.now()
    cliStatus,      \* each downstream socket: "new", "open", "broken" (write throws), "closed"
    dSent,          \* per socket, what the last handler run wrote to it
    dTried,         \* per socket, how often the last handler run called write on it
    dBcast,         \* the messages the last handler run passed to broadcastToClients
    dBefore,        \* RooDaemon.clients as it was when the last handler started
    dUp,            \* what the last handler run emitted on the upstream link
    dLog,           \* what the last handler run logged
    dedupCalls,     \* per cache key, the last three emit-or-suppress decisions taken on it
    dLast,          \* the last handler run: its name, socket and argument
    cliFirst,       \* per socket, the type of the first message ever written to it
    refCache,       \* the messageCache of a daemon that never deletes an entry
    refLog          \* what that daemon logs in the last handler run

daemonVars == <<alive, connected, clientId, currentTask, clients, messageHistory,
                messageCache, cacheFill, now, cliStatus, dSent, dTried, dBcast, dBefore,
                dUp, dLog,
                dedupCalls, dLast, cliFirst, refCache, refLog>>

VARIABLES
    linkIn,         \* the messages IpcServer has written to the daemon's socket, in flight
    linkOut         \* the messages the daemon has emitted upstream, in flight

linkVars == <<linkIn, linkOut>>

VARIABLES
    tcpServer,      \* RooDaemon.tcpServer: "pending" (listen called), "listening", "failed"
    upAvailable,    \* the upstream endpoint accepts connections
    ipcSocket,      \* the node-ipc client socket: "connecting", "open", "errored", "retryWait"
    ipcAttempts     \* connection attempts made on the upstream link, counted up to MaxAttempts

procVars == <<tcpServer, upAvailable, ipcSocket, ipcAttempts>>

VARIABLES
    cliKind,        \* which CLI runs: "roo-cli" (RooCLI) or "enhanced" (RooCLIEnhanced)
    cliConn,        \* the CLI's `connected`
    rooConnected,   \* the CLI's `rooConnected`
    cliInbox,       \* the daemon's messages the CLI has not processed yet
    cliSock,        \* the daemon-side socket of the CLI's connection, 0 before the first
    cliPhase,       \* the CLI's socket: "connecting", "connected", "errored", "waiting"
                    \* (reconnect timer armed), "idle" (nothing scheduled)
    daemonUp,       \* the daemon accepts connections
    cliOut,         \* what the CLI has written and the daemon has not read yet
    cliLast,        \* the CLI's last command: its name and the --cwd option it ran with
    cliAttempts     \* reconnections the timer of RooCLI has started, up to MaxAttempts

cliVars == <<cliKind, cliConn, rooConnected, cliInbox, cliSock, cliPhase, daemonUp,
            cliOut, cliLast, cliAttempts>>

VARIABLES
    argv,           \* the command line after the command word (args.slice(1))
    parsed,         \* what parseOptionsAndArgs returned for argv, once it has run
    mainCommand,    \* args[0] of the enhanced CLI's command line, Undefined without one
    mainPc,         \* where main of the enhanced CLI stands
    exitCode,       \* the exit code of the enhanced CLI's process, -1 while it runs
    mainWhy,        \* what ended main: "none", "usage", "connection", "command", "signal"
    sessions,       \* RooSessionManager.sessions: taskId -> [status, lastActivity]
    sessBefore,     \* sessions as they were when the last manager call started
    sessLast,       \* the last manager call
    dateNow         \* Date.now() of the CLI's process

mainVars == <<mainCommand, mainPc, exitCode, mainWhy>>
sessVars == <<sessions, sessBefore, sessLast, dateNow>>

VARIABLES
    wire,           \* the bytes a downstream client has written and TCP has not delivered yet
    written,        \* the messages that client has written, in order
    handled,        \* the messages the data handler has passed to handleClientMessage
    socketPath,     \* RooDaemon.socketPath is set (options.socket or the environment)
    pathExists,     \* existsSync(socketPath)
    socketWatcher,  \* the interval of watchForSocket: "none", "armed", "cleared"
    connectCalls,   \* calls of connectToIPC so far
    daemonPc        \* the daemon's process: "new", "running", "exited"

wireVars == <<wire, written, handled>>
startVars == <<socketPath, pathExists, socketWatcher, connectCalls, daemonPc>>

VARIABLES
    bConnected,     \* RooBlessedClient.connected
    bReady,         \* RooBlessedClient.isReady
    bClientId,      \* RooBlessedClient.clientId
    bReadOnly,      \* inputBox.options.readOnly
    bTask,          \* RooBlessedClient.currentTask
    bLink,          \* the client's node-ipc socket: "down", "up"
    bListeners,     \* the 'message' (and 'disconnect') listeners registered on ipc.of.world
    bAcked,         \* the clientId of the last Ack the server sent on the current connection
    bRuns,          \* how often onMessage or onDisconnect ran for the last event
    bSent,          \* what the last handler run emitted to the server
    bLast           \* the last event of the client: its name and argument

blessedVars == <<bConnected, bReady, bClientId, bReadOnly, bTask, bLink, bListeners, bAcked, bRuns,
                bSent, bLast>>
argVars == <<argv, parsed, mainVars, sessVars, wireVars, startVars, blessedVars>>

otherVars == <<procVars, cliVars, argVars>>

vars == <<srvVars, daemonVars, linkVars, otherVars>>

\* A step of IpcServer alone, and a step of RooDaemon alone
ServerOnly == UNCHANGED <<daemonVars, linkVars, otherVars>>
DaemonOnly == UNCHANGED <<srvVars, linkVars, otherVars>>

\* ======================================================================
\* IpcServer (packages/ipc/src/ipc-server.ts)
\* ======================================================================

\* The message types and origins of @roo-code/types
IpcMessageTypes == {"Connect", "Disconnect", "Ack", "TaskCommand", "TaskEvent"}
IpcOrigins == {"client", "server"}

\* What can arrive as `data` in onMessage: a non-object (a string), null, or
\* an object whose fields may be missing or unrecognized.
\* No payload, and no input (the handlers that take none)
NoData == 0
NoInput == [shape |-> "none", type |-> Absent, origin |-> Absent, clientId |-> Absent,
            data |-> NoData]

ServerInputs ==
    {[shape |-> sh, type |-> Absent, origin |-> Absent, clientId |-> Absent, data |-> NoData] :
        sh \in {"string", "null"}}
    \cup
    [shape : {"object"}, type : {"TaskCommand"}, origin : {"client"},
     clientId : ClientIds, data : Payloads]
    \cup
    [shape : {"object"}, type : {"Connect"}, origin : {"client"},
     clientId : ClientIds, data : {1}]
    \cup
    [shape : {"object"}, type : {"TaskEvent"}, origin : {"server"},
     clientId : {Absent}, data : {1}]
    \cup
    [shape : {"object"}, type : {"TaskCommand"}, origin : {"server"},
     clientId : {"c1"}, data : {1}]
    \cup
    [shape : {"object"}, type : {Absent, "Bogus"}, origin : {"client"},
     clientId : {"c1"}, data : {1}]
    \cup
    [shape : {"object"}, type : {"TaskCommand"}, origin : {Absent},
     clientId : {"c1"}, data : {1}]
    \cup
    [shape : {"object"}, type : {"TaskCommand"}, origin : {"client"},
     clientId : {Absent}, data : {1}]

\* typeof data === "object" (true of null as well)
TypeofObject(d) == d.shape \in {"object", "null"}

\* ipcMessageSchema.safeParse(data).success
ipcMessageSchema(d) ==
    /\ d.shape = "object"
    /\ d.type \in IpcMessageTypes
    /\ d.origin \in IpcOrigins
    /\ (d.origin = "client" => d.clientId \in ClientIds)

\* Map<string, Socket> as a sequence of entries in insertion order
MapHas(m, k) == \E i \in 1..Len(m) : m[i].clientId = k
MapGet(m, k) == IF MapHas(m, k)
                THEN m[CHOOSE i \in 1..Len(m) : m[i].clientId = k].socket
                ELSE Undefined
MapSet(m, k, v) ==
    IF MapHas(m, k)
    THEN [i \in 1..Len(m) |-> IF m[i].clientId = k THEN [clientId |-> k, socket |-> v] ELSE m[i]]
    ELSE Append(m, [clientId |-> k, socket |-> v])
MapDeleteAt(m, i) == SubSeq(m, 1, i - 1) \o SubSeq(m, i + 1, Len(m))
MapKeys(m) == {m[i].clientId : i \in 1..Len(m)}
MapSockets(m) == {m[i].socket : i \in 1..Len(m)}

\* An entry of the program-order trace of a handler run
Did(kind, name, id) == [kind |-> kind, name |-> name, clientId |-> id]
Emits(events) == [i \in 1..Len(events) |-> Did("emit", events[i].name, events[i].clientId)]

AckMessage(id) ==
    [type |-> "Ack", origin |-> "server",
     data |-> [clientId |-> id, pid |-> "pid", ppid |-> "ppid"]]

\* Register without the `!this._clients.has(clientId)` guard: the last sender wins
RegisterOverwrite(m, id, socket) ==
    [clients |-> MapSet(m, id, socket),
     sent    |-> <<[to |-> socket, msg |-> AckMessage(id)]>>,
     events  |-> <<[name |-> "Connect", clientId |-> id, data |-> NoData]>>,
     trace   |-> <<Did("send", "Ack", id), Did("emit", "Connect", id)>>]

\* Register without the this.send(socket, Ack) call
RegisterSilent(m, id, socket) ==
    IF ~MapHas(m, id)
    THEN [clients |-> MapSet(m, id, socket),
          sent    |-> <<>>,
          events  |-> <<[name |-> "Connect", clientId |-> id, data |-> NoData]>>,
          trace   |-> <<Did("emit", "Connect", id)>>]
    ELSE [clients |-> m, sent |-> <<>>, events |-> <<>>, trace |-> <<>>]

\* The registration branch of onMessage: the new registry, what is sent and emitted
Register(m, id, socket) ==
    IF ~MapHas(m, id)
    THEN [clients |-> MapSet(m, id, socket),
          sent    |-> <<[to |-> socket, msg |-> AckMessage(id)]>>,
          events  |-> <<[name |-> "Connect", clientId |-> id, data |-> NoData]>>,
          trace   |-> <<Did("send", "Ack", id), Did("emit", "Connect", id)>>]
    ELSE [clients |-> m, sent |-> <<>>, events |-> <<>>, trace |-> <<>>]

\* The type switch with the TaskCommand case taken for every message type
DispatchAnyType(payload) ==
    <<[name |-> "TaskCommand", clientId |-> payload.clientId, data |-> payload.data]>>

\* The type switch of onMessage
Dispatch(payload) ==
    IF payload.type = "TaskCommand"
    THEN <<[name |-> "TaskCommand", clientId |-> payload.clientId, data |-> payload.data]>>
    ELSE <<>>

\* onMessage without the `!result.success` return: an unparsed object is used as it is
onMessageUnchecked(m, data, socket) ==
    IF ~TypeofObject(data) \/ data.shape = "null"
    THEN [clients |-> m, sent |-> <<>>, events |-> <<>>, trace |-> <<>>]
    ELSE IF data.origin = "client"
         THEN LET r == Register(m, data.clientId, socket)
              IN  [clients |-> r.clients, sent |-> r.sent, events |-> r.events \o Dispatch(data),
                   trace |-> r.trace \o Emits(Dispatch(data))]
         ELSE [clients |-> m, sent |-> <<>>, events |-> <<>>, trace |-> <<>>]

\* onMessage with the type switch ahead of the registration branch
onMessageSwitchFirst(m, data, socket) ==
    IF ~TypeofObject(data) THEN [clients |-> m, sent |-> <<>>, events |-> <<>>, trace |-> <<>>]
    ELSE IF ~ipcMessageSchema(data)
    THEN [clients |-> m, sent |-> <<>>, events |-> <<>>, trace |-> <<>>]
    ELSE IF data.origin = "client"
         THEN LET r == Register(m, data.clientId, socket)
              IN  [clients |-> r.clients, sent |-> r.sent, events |-> r.events \o Dispatch(data),
                   trace |-> Emits(Dispatch(data)) \o r.trace]
         ELSE [clients |-> m, sent |-> <<>>, events |-> <<>>, trace |-> <<>>]

\* IpcServer.onMessage(data, socket) as a function of the registry
onMessageResult(m, data, socket) ==
    IF ~TypeofObject(data) THEN [clients |-> m, sent |-> <<>>, events |-> <<>>, trace |-> <<>>]
    ELSE IF ~ipcMessageSchema(data) THEN [clients |-> m, sent |-> <<>>, events |-> <<>>, trace |-> <<>>]
    ELSE IF data.origin = "client"
         THEN LET r == Register(m, data.clientId, socket)
              IN  [clients |-> r.clients, sent |-> r.sent, events |-> r.events \o Dispatch(data),
                   trace |-> r.trace \o Emits(Dispatch(data))]
         ELSE [clients |-> m, sent |-> <<>>, events |-> <<>>, trace |-> <<>>]

\* IpcServer.onDisconnect(destroyedSocket) as a function of the registry:
\* the loop deletes the first entry bound to the socket and stops
onDisconnectResult(m, destroyedSocket) ==
    IF \E i \in 1..Len(m) : m[i].socket = destroyedSocket
    THEN LET i == CHOOSE j \in 1..Len(m) :
                     /\ m[j].socket = destroyedSocket
                     /\ \A k \in 1..(j - 1) : m[k].socket # destroyedSocket
             id == m[i].clientId
         IN  [clients |-> MapDeleteAt(m, i),
              events  |-> IF Truthy(id)
                          THEN <<[name |-> "Disconnect", clientId |-> id, data |-> NoData]>>
                          ELSE <<>>]
    ELSE [clients |-> m, events |-> <<>>]

\* The events of one handler run added to the counts of this.emit
Tallied(counts, events) ==
    [c \in DOMAIN counts |->
        [connect    |-> counts[c].connect +
                          Cardinality({i \in 1..Len(events) :
                                         events[i].name = "Connect" /\ events[i].clientId = c}),
         disconnect |-> counts[c].disconnect +
                          Cardinality({i \in 1..Len(events) :
                                         events[i].name = "Disconnect" /\ events[i].clientId = c})]]

SrvInit ==
    /\ srvCounts = [c \in ClientIds |-> [connect |-> 0, disconnect |-> 0]]
    /\ sockStatus = [s \in Sockets |-> "new"]
    /\ ipcClients = <<>>
    /\ srvSent = <<>>
    /\ srvEvents = <<>>
    /\ srvTrace = <<>>
    /\ srvLast = [op |-> "init", socket |-> 0, data |-> NoInput]
    /\ srvBefore = <<>>
    /\ srvDropped = {}

\* ipc.server "connect": onConnect only logs
onConnect(s) ==
    /\ sockStatus[s] = "new"
    /\ sockStatus' = [sockStatus EXCEPT ![s] = "open"]
    /\ srvSent' = <<>>
    /\ srvEvents' = <<>>
    /\ srvTrace' = <<>>
    /\ srvLast' = [op |-> "connect", socket |-> s, data |-> NoInput]
    /\ srvBefore' = ipcClients
    /\ UNCHANGED <<ipcClients, srvDropped, srvCounts>>

\* ipc.server "socket.disconnected"
onDisconnect(s) ==
    /\ sockStatus[s] = "open"
    /\ sockStatus' = [sockStatus EXCEPT ![s] = "closed"]
    /\ LET r == onDisconnectResult(ipcClients, s)
       IN  /\ ipcClients' = r.clients
           /\ srvEvents' = r.events
           /\ srvTrace' = Emits(r.events)
           /\ srvCounts' = Tallied(srvCounts, r.events)
    /\ srvSent' = <<>>
    /\ srvLast' = [op |-> "disconnect", socket |-> s, data |-> NoInput]
    /\ srvBefore' = ipcClients
    /\ UNCHANGED srvDropped

\* ipc.server "message"
onMessage(s, data) ==
    /\ sockStatus[s] = "open"
    /\ LET r == onMessageResult(ipcClients, data, s)
       IN  /\ ipcClients' = r.clients
           /\ srvSent' = r.sent
           /\ srvEvents' = r.events
           /\ srvTrace' = r.trace
           /\ srvCounts' = Tallied(srvCounts, r.events)
    /\ srvLast' = [op |-> "message", socket |-> s, data |-> data]
    /\ srvBefore' = ipcClients
    /\ srvDropped' = IF TypeofObject(data) /\ ipcMessageSchema(data)
                     THEN srvDropped ELSE srvDropped \cup {s}
    /\ UNCHANGED sockStatus

SrvNext ==
    \/ \E s \in Sockets : onConnect(s) /\ ServerOnly
    \/ \E s \in Sockets : onDisconnect(s) /\ ServerOnly
    \/ \E s \in Sockets, d \in ServerInputs : onMessage(s, d) /\ ServerOnly

\* ======================================================================
\* RooDaemon (roo-blessed/roo-daemon.js)
\* ======================================================================

cooldownPeriod == 3000
questionCooldown == 5000
cacheSweepSize == 100
historyLimit == 1000
historyTail == 10

\* Array.prototype.slice(-n)
SliceLast(q, n) == IF Len(q) > n THEN SubSeq(q, Len(q) - n + 1, Len(q)) ELSE q

LogEntry(level, what) == [level |-> level, what |-> what]

\* The daemon's fields together with what the running handler has written so far
Daemon ==
    [alive |-> alive, connected |-> connected, clientId |-> clientId,
     currentTask |-> currentTask, clients |-> clients,
     messageHistory |-> messageHistory, messageCache |-> messageCache,
     cacheFill |-> cacheFill,
     sent |-> [s \in Sockets |-> <<>>], tried |-> [s \in Sockets |-> 0],
     bcast |-> <<>>, up |-> <<>>, log |-> <<>>, calls |-> dedupCalls,
     ref |-> refCache, refLog |-> <<>>]

\* RooDaemon.log
Log(d, level, what) == [d EXCEPT !.log = Append(@, LogEntry(level, what))]

\* RooDaemon.sendToClient: a throwing write is caught and logged
sendToClient(d, socket, message) ==
    IF cliStatus[socket] = "broken"
    THEN [Log(d, "error", "Error sending to client") EXCEPT !.tried[socket] = @ + 1]
    ELSE [d EXCEPT !.sent[socket] = Append(@, message), !.tried[socket] = @ + 1]

\* RooDaemon.broadcastToClients: every socket of the set is written once; a
\* socket whose write throws is deleted from the set
RECURSIVE BroadcastLoop(_, _, _)
BroadcastLoop(d, todo, message) ==
    IF todo = {} THEN d
    ELSE LET client == CHOOSE c \in todo : TRUE
             d1 == IF cliStatus[client] = "broken"
                   THEN [Log(d, "error", "Error broadcasting to client")
                            EXCEPT !.tried[client] = @ + 1,
                                   !.clients = @ \ {client}]
                   ELSE [d EXCEPT !.sent[client] = Append(@, message),
                                  !.tried[client] = @ + 1]
         IN  BroadcastLoop(d1, todo \ {client}, message)

\* The loop without the this.clients.delete(client) of its catch block
RECURSIVE BroadcastLoopKeep(_, _, _)
BroadcastLoopKeep(d, todo, message) ==
    IF todo = {} THEN d
    ELSE LET client == CHOOSE c \in todo : TRUE
             d1 == IF cliStatus[client] = "broken"
                   THEN [Log(d, "error", "Error broadcasting to client")
                            EXCEPT !.tried[client] = @ + 1]
                   ELSE [d EXCEPT !.sent[client] = Append(@, message),
                                  !.tried[client] = @ + 1]
         IN  BroadcastLoopKeep(d1, todo \ {client}, message)

BroadcastWritesKeep(d, message) == BroadcastLoopKeep(d, d.clients, message)

\* for (const client of this.clients) { try { client.write(data) } catch { delete } }
BroadcastWrites(d, message) == BroadcastLoop(d, d.clients, message)

broadcastToClients(d, message) ==
    BroadcastWrites([d EXCEPT !.bcast = Append(@, message)], message)

\* ---- what the upstream peer can deliver to onIPCMessage ----
\* One envelope, flattened: topId is data.clientId, dataId is data.data.clientId,
\* eventName/payload are those of `data.data || data`; payload is "absent",
\* "empty" ([]) or "ok" (payload[0] = arg for the task events, and
\* payload[0].message = {type: mtype, text, tool} for "message").
UpBase ==
    [shape |-> "object", type |-> Absent, topId |-> Absent, dataId |-> Absent,
     eventName |-> Absent, payload |-> Absent, arg |-> Absent,
     mtype |-> Absent, text |-> Absent, tool |-> Absent]
UpNull == [UpBase EXCEPT !.shape = "null"]
UpAck(t, id) == [UpBase EXCEPT !.type = t, !.dataId = id]
UpEvent(t, name, pl, a) ==
    [UpBase EXCEPT !.type = t, !.eventName = name, !.payload = pl, !.arg = a]
UpMessage(mt, tx) ==
    [UpBase EXCEPT !.type = "TaskEvent", !.eventName = "message", !.payload = "ok",
                   !.mtype = mt, !.text = tx]

\* String.startsWith('{') && String.includes('question'), and JSON.parse of the text,
\* for the texts of the model: "{q:X}" stands for '{"question":"X"}', "{question"
\* for a text JSON.parse rejects, "{a:question}" for an object without a question field.
LooksLikeQuestion(text) == text \in {"{q:Hello}", "{question", "{a:question}"}
JsonParse(text) ==
    CASE text = "{q:Hello}" -> [ok |-> TRUE, question |-> "Hello"]
      [] text = "{a:question}" -> [ok |-> TRUE, question |-> Absent]
      [] OTHER -> [ok |-> FALSE, question |-> Absent]

CacheSize(d) == Cardinality(DOMAIN d.messageCache) + d.cacheFill
CacheSet(cache, key, t) == [k \in DOMAIN cache \cup {key} |-> IF k = key THEN t ELSE cache[k]]

\* A sweep that deletes every entry written before the current call
SweepToNow(d) ==
    IF CacheSize(d) > cacheSweepSize
    THEN [d EXCEPT !.messageCache = [k \in {j \in DOMAIN @ : ~(@[j] < now)} |-> @[k]],
                   !.cacheFill = IF 0 < now THEN 0 ELSE @]
    ELSE d

\* The sweep of logWithDeduplication: entries older than 2 * cooldown are deleted
Sweep(d) ==
    IF CacheSize(d) > cacheSweepSize
    THEN LET cutoff == now - (cooldownPeriod * 2)
         IN  [d EXCEPT !.messageCache = [k \in {j \in DOMAIN @ : ~(@[j] < cutoff)} |-> @[k]],
                       !.cacheFill = IF 0 < cutoff THEN 0 ELSE @]
    ELSE d

\* Record a decision taken on `key` by `fn` at the current time
Decided(d, key, emit, fn) ==
    LET old == IF key \in DOMAIN d.calls THEN d.calls[key] ELSE <<>>
        new == SliceLast(Append(old, [t |-> now, emit |-> emit, fn |-> fn]), 3)
    IN  [d EXCEPT !.calls = [k \in DOMAIN @ \cup {key} |-> IF k = key THEN new ELSE @[k]]]

\* logWithDeduplication writing the timestamp on a suppressed call as well
logWithDeduplicationRefresh(d, what, level, key) ==
    IF key \notin DOMAIN d.messageCache \/ (now - d.messageCache[key]) > cooldownPeriod
    THEN Decided([Log(d, level, what) EXCEPT !.messageCache =
                      [k \in DOMAIN @ \cup {key} |-> IF k = key THEN now ELSE @[k]]],
                 key, TRUE, "log")
    ELSE Decided([d EXCEPT !.messageCache[key] = now], key, FALSE, "log")

\* The emit-or-suppress test of logWithDeduplication
ShouldEmit(cache, key, t) ==
    key \notin DOMAIN cache \/ (t - cache[key]) > cooldownPeriod

\* logWithDeduplication of the daemon that never deletes an entry: the same
\* test and the same write on its own cache, and no sweep
ReferenceLog(d, what, level, key) ==
    IF ShouldEmit(d.ref, key, now)
    THEN [d EXCEPT !.ref = CacheSet(@, key, now),
                   !.refLog = Append(@, LogEntry(level, what))]
    ELSE d

\* formatQuestionMessage of the daemon that never deletes an entry
ReferenceQuestion(d, questionKey) ==
    IF questionKey \notin DOMAIN d.ref \/ (now - d.ref[questionKey]) > questionCooldown
    THEN [d EXCEPT !.ref = CacheSet(@, questionKey, now),
                   !.refLog = Append(@, LogEntry("warn", questionKey))]
    ELSE d

\* RooDaemon.logWithDeduplication(message, level, key)
logWithDeduplication(d, what, level, key) ==
    IF ShouldEmit(d.messageCache, key, now)
    THEN Decided(Sweep([Log(ReferenceLog(d, what, level, key), level, what)
                          EXCEPT !.messageCache = CacheSet(@, key, now)]),
                 key, TRUE, "log")
    ELSE Decided(ReferenceLog(d, what, level, key), key, FALSE, "log")

\* RooDaemon.formatQuestionMessage(data)
formatQuestionMessage(d, question) ==
    IF Truthy(question)
    THEN LET questionKey == "question:" \o question
         IN  IF questionKey \notin DOMAIN d.messageCache
                \/ (now - d.messageCache[questionKey]) > questionCooldown
             THEN Decided([Log(ReferenceQuestion(d, questionKey), "warn", questionKey)
                             EXCEPT !.messageCache = CacheSet(@, questionKey, now)],
                          questionKey, TRUE, "question")
             ELSE Decided(ReferenceQuestion(d, questionKey), questionKey, FALSE, "question")
    ELSE d

\* RooDaemon.formatAndLogMessage(message); mtype Absent is a missing message
formatAndLogMessage(d, mtype, text, tool) ==
    CASE mtype = "say" ->
            IF text = Absent THEN d
            ELSE IF LooksLikeQuestion(text)
                 THEN IF JsonParse(text).ok
                      THEN formatQuestionMessage(d, JsonParse(text).question)
                      ELSE logWithDeduplication(d, "Roo: " \o text, "info", text)
                 ELSE logWithDeduplication(d, "Roo: " \o text, "info", text)
      [] mtype = "ask" ->
            IF text = Absent THEN d
            ELSE logWithDeduplication(d, "Roo asks: " \o text, "warn", "ask:" \o text)
      [] mtype = "tool" ->
            IF tool = Absent THEN d ELSE Log(d, "info", "Tool: " \o tool)
      [] OTHER ->
            IF text = Absent THEN d
            ELSE logWithDeduplication(d, mtype \o ": " \o text, "info", mtype \o ":" \o text)

\* An exception nobody catches ends the process
Throw(d) == [d EXCEPT !.alive = FALSE]

\* RooDaemon.handleTaskEvent(event)
handleTaskEvent(d, ev) ==
    CASE ev.eventName = "taskStarted" ->
            IF ev.payload = Absent THEN Throw(d)
            ELSE LET t == IF ev.payload = "ok" THEN ev.arg ELSE Undefined
                 IN  Log([d EXCEPT !.currentTask = t], "success", "Task started")
      [] ev.eventName = "taskCompleted" ->
            IF ev.payload = Absent THEN Throw(d)
            ELSE [Log(d, "success", "Task completed") EXCEPT !.currentTask = Null]
      [] ev.eventName = "taskAborted" ->
            IF ev.payload = Absent THEN Throw(d)
            ELSE [Log(d, "warn", "Task aborted") EXCEPT !.currentTask = Null]
      [] ev.eventName = "message" ->
            IF ev.payload # "ok" THEN Throw(d)
            ELSE IF ev.mtype = Absent THEN d
                 ELSE formatAndLogMessage(d, ev.mtype, ev.text, ev.tool)
      [] ev.eventName = "taskTokenUsageUpdated" -> d
      [] OTHER -> Log(d, "info", "event")

\* The tail of onIPCMessage: history and the ipcMessage broadcast
StoreAndForward(d, data) ==
    LET h == Append(d.messageHistory, data)
        d1 == [d EXCEPT !.messageHistory =
                  IF Len(h) > historyLimit THEN SliceLast(h, historyLimit) ELSE h]
    IN  broadcastToClients(d1, [type |-> "ipcMessage", data |-> data])

\* RooDaemon.onIPCMessage(data) up to the history push
Classify(d, data) ==
    IF data.type \in {"ack", "Ack"}
    THEN LET id == IF Truthy(data.dataId) THEN data.dataId
                   ELSE IF data.topId = Absent THEN Undefined ELSE data.topId
             d1 == Log([d EXCEPT !.clientId = id], "success", "Received client ID")
         IN  broadcastToClients(d1, [type |-> "ready", data |-> [clientId |-> id]])
    ELSE IF data.type \in {"taskEvent", "TaskEvent"}
         THEN handleTaskEvent(d, data)
         ELSE Log(d, "warn", "Unknown IPC message type")

\* onIPCMessage returning after the "Unknown IPC message type" warning
onIPCMessageDropUnknown(d, data) ==
    IF data.shape = "null" THEN Throw(d)
    ELSE LET d1 == Classify(Log(d, "info", "Received IPC message"), data)
         IN  IF d1.alive /\ data.type \in {"ack", "Ack", "taskEvent", "TaskEvent"}
             THEN StoreAndForward(d1, data) ELSE d1

\* onIPCMessage forwarding a "message" envelope only when its log line was written
onIPCMessageDedup(d, data) ==
    IF data.shape = "null" THEN Throw(d)
    ELSE LET d1 == Classify(Log(d, "info", "Received IPC message"), data)
             suppressed == \E key \in DOMAIN d1.calls :
                              /\ key \notin DOMAIN d.calls \/ d1.calls[key] # d.calls[key]
                              /\ ~d1.calls[key][Len(d1.calls[key])].emit
         IN  IF d1.alive /\ ~suppressed THEN StoreAndForward(d1, data) ELSE d1

\* RooDaemon.onIPCMessage(data)
onIPCMessageResult(d, data) ==
    IF data.shape = "null" THEN Throw(d)
    ELSE LET d1 == Classify(Log(d, "info", "Received IPC message"), data)
         IN  IF d1.alive THEN StoreAndForward(d1, data) ELSE d1

\* RooDaemon.onIPCConnect()
onIPCConnectResult(d) ==
    broadcastToClients(
        Log([d EXCEPT !.connected = TRUE], "success", "Connected to Roo Code IPC server"),
        [type |-> "status", data |-> [connected |-> TRUE, message |-> "Connected to Roo Code"]])

\* onIPCDisconnect leaving the clientId of the lost link in place
onIPCDisconnectKeepId(d) ==
    broadcastToClients(
        Log([d EXCEPT !.connected = FALSE], "warn", "Disconnected from Roo Code IPC server"),
        [type |-> "status",
         data |-> [connected |-> FALSE, message |-> "Disconnected from Roo Code"]])

\* RooDaemon.onIPCDisconnect()
onIPCDisconnectResult(d) ==
    broadcastToClients(
        Log([d EXCEPT !.connected = FALSE, !.clientId = Null],
            "warn", "Disconnected from Roo Code IPC server"),
        [type |-> "status",
         data |-> [connected |-> FALSE, message |-> "Disconnected from Roo Code"]])

ErrorMessage(text) == [type |-> "error", data |-> [message |-> text]]

\* The TaskCommand of sendTaskToRoo
TaskCommand(id, text, cwd) ==
    [type |-> "TaskCommand", origin |-> "client", clientId |-> id,
     commandName |-> "StartNewTask", text |-> text,
     workingDirectory |-> IF cwd \in {Absent, ""} THEN Absent ELSE cwd]

\* sendTaskToRoo without the `!this.clientId` check
sendTaskToRooUnchecked(d, text, cwd) ==
    IF ~d.connected
    THEN broadcastToClients(Log(d, "error", "Cannot send task: not connected to Roo Code"),
                            ErrorMessage("Not connected to Roo Code"))
    ELSE LET d1 == Log(d, "success", "Sending task")
             d2 == [d1 EXCEPT !.up = Append(@, TaskCommand(d.clientId, text, cwd))]
         IN  broadcastToClients(d2,
                 [type |-> "taskSent", data |-> [text |-> text, cwd |-> cwd]])

\* RooDaemon.sendTaskToRoo(text, cwd)
sendTaskToRoo(d, text, cwd) ==
    IF ~d.connected
    THEN broadcastToClients(Log(d, "error", "Cannot send task: not connected to Roo Code"),
                            ErrorMessage("Not connected to Roo Code"))
    ELSE IF ~Truthy(d.clientId)
         THEN broadcastToClients(Log(d, "error", "Cannot send task: no client ID"),
                                 ErrorMessage("Connection not fully established"))
         ELSE LET d1 == Log(d, "success", "Sending task")
                  d2 == [d1 EXCEPT !.up = Append(@, TaskCommand(d.clientId, text, cwd))]
              IN  broadcastToClients(d2,
                      [type |-> "taskSent", data |-> [text |-> text, cwd |-> cwd]])

\* What a downstream client can write: a chunk JSON.parse rejects, the JSON
\* value null, or an object {type, data: {text, cwd}} whose data may be missing
ClientBase == [json |-> "object", type |-> Absent, hasData |-> FALSE,
               text |-> Absent, cwd |-> Absent]
ClientInputs ==
    {[ClientBase EXCEPT !.json = "invalid"], [ClientBase EXCEPT !.json = "null"],
     [ClientBase EXCEPT !.type = "sendTask"],
     [ClientBase EXCEPT !.type = "ping"],
     [ClientBase EXCEPT !.type = "bogus"]}
    \cup {[ClientBase EXCEPT !.type = "sendTask", !.hasData = TRUE, !.text = "do", !.cwd = c] :
            c \in {Absent, "", "/w"}}

\* handleClientMessage answering a ping with a broadcast
handleClientMessagePongAll(d, socket, message) ==
    IF message.json = "null" THEN Log(d, "error", "Invalid JSON from client")
    ELSE IF message.type = "sendTask"
         THEN IF ~message.hasData THEN Log(d, "error", "Invalid JSON from client")
              ELSE sendTaskToRoo(d, message.text, message.cwd)
         ELSE IF message.type = "ping"
              THEN broadcastToClients(d, [type |-> "pong", data |-> [timestamp |-> now]])
              ELSE Log(d, "warn", "Unknown client message type")

\* RooDaemon.handleClientMessage(socket, message); a TypeError leaves through
\* the catch of the data handler, which logs it
handleClientMessage(d, socket, message) ==
    IF message.json = "null" THEN Log(d, "error", "Invalid JSON from client")
    ELSE IF message.type = "sendTask"
         THEN IF ~message.hasData THEN Log(d, "error", "Invalid JSON from client")
              ELSE sendTaskToRoo(d, message.text, message.cwd)
         ELSE IF message.type = "ping"
              THEN sendToClient(d, socket, [type |-> "pong", data |-> [timestamp |-> now]])
              ELSE Log(d, "warn", "Unknown client message type")

\* The 'data' handler of handleClientConnection
onClientDataResult(d, socket, chunk) ==
    IF chunk.json = "invalid" THEN Log(d, "error", "Invalid JSON from client")
    ELSE handleClientMessage(d, socket, chunk)

\* handleClientConnection sending the status of a daemon that is not Ready
\* ahead of the welcome
handleClientConnectionStatusFirst(d, socket) ==
    LET d1 == Log([d EXCEPT !.clients = @ \cup {socket}], "success", "CLI client connected")
        d2 == IF ~d.connected \/ ~Truthy(d.clientId)
              THEN sendToClient(d1, socket,
                      [type |-> "status",
                       data |-> [connected |-> FALSE,
                                 message |-> IF d.connected
                                             THEN "Connected to Roo IPC but waiting for acknowledgment"
                                             ELSE "Not connected to Roo IPC"]])
              ELSE d1
    IN  sendToClient(d2, socket,
            [type |-> "welcome",
             data |-> [connected |-> d.connected, clientId |-> d.clientId,
                       currentTask |-> d.currentTask,
                       messageHistory |-> SliceLast(d.messageHistory, historyTail)]])

\* RooDaemon.handleClientConnection(socket), up to the registration of the handlers
handleClientConnectionResult(d, socket) ==
    LET d1 == Log([d EXCEPT !.clients = @ \cup {socket}], "success", "CLI client connected")
        d2 == sendToClient(d1, socket,
                [type |-> "welcome",
                 data |-> [connected |-> d.connected, clientId |-> d.clientId,
                           currentTask |-> d.currentTask,
                           messageHistory |-> SliceLast(d.messageHistory, historyTail)]])
    IN  IF ~d.connected \/ ~Truthy(d.clientId)
        THEN sendToClient(d2, socket,
                [type |-> "status",
                 data |-> [connected |-> FALSE,
                           message |-> IF d.connected
                                       THEN "Connected to Roo IPC but waiting for acknowledgment"
                                       ELSE "Not connected to Roo IPC"]])
        ELSE d2

\* The 'close' and 'error' handlers without this.clients.delete(socket)
onClientGoneResultKeeps(d, socket, level) ==
    Log(d, level, "CLI client gone")

\* The 'close' and 'error' handlers of handleClientConnection
onClientGoneResult(d, socket, level) ==
    [Log(d, level, "CLI client gone") EXCEPT !.clients = @ \ {socket}]

\* ---- the daemon's actions ----
Commit(d, last) ==
    /\ alive' = d.alive
    /\ connected' = d.connected
    /\ clientId' = d.clientId
    /\ currentTask' = d.currentTask
    /\ clients' = d.clients
    /\ messageHistory' = d.messageHistory
    /\ messageCache' = d.messageCache
    /\ cacheFill' = d.cacheFill
    /\ dSent' = d.sent
    /\ dTried' = d.tried
    /\ dBcast' = d.bcast
    /\ dBefore' = clients
    /\ dUp' = d.up
    /\ dLog' = d.log
    /\ dedupCalls' = d.calls
    /\ dLast' = last
    /\ cliFirst' = [s \in Sockets |->
                       IF cliFirst[s] = "none" /\ d.sent[s] # <<>>
                       THEN d.sent[s][1].type ELSE cliFirst[s]]
    /\ refCache' = d.ref
    /\ refLog' = d.refLog

NoArg == [none |-> TRUE]
Last(op, socket, arg) == [op |-> op, socket |-> socket, arg |-> arg]

DaemonInit ==
    /\ alive = TRUE
    /\ connected = FALSE
    /\ clientId = Null
    /\ currentTask = Null
    /\ clients = {}
    /\ messageHistory = <<>>
    /\ messageCache = <<>>
    /\ cacheFill = 0
    /\ now = 0
    /\ cliStatus = [s \in Sockets |-> "new"]
    /\ dSent = [s \in Sockets |-> <<>>]
    /\ dTried = [s \in Sockets |-> 0]
    /\ dBcast = <<>>
    /\ dBefore = {}
    /\ dUp = <<>>
    /\ dLog = <<>>
    /\ dedupCalls = <<>>
    /\ dLast = Last("init", 0, NoArg)
    /\ cliFirst = [s \in Sockets |-> "none"]
    /\ refCache = <<>>
    /\ refLog = <<>>

onIPCConnect ==
    /\ alive /\ ~connected
    /\ Commit(onIPCConnectResult(Daemon), Last("onIPCConnect", 0, NoArg))
    /\ UNCHANGED <<now, cliStatus>>

onIPCDisconnect ==
    /\ alive
    /\ Commit(onIPCDisconnectResult(Daemon), Last("onIPCDisconnect", 0, NoArg))
    /\ UNCHANGED <<now, cliStatus>>

onIPCMessage(data) ==
    /\ alive /\ connected
    /\ Commit(onIPCMessageResult(Daemon, data), Last("onIPCMessage", 0, data))
    /\ UNCHANGED <<now, cliStatus>>

handleClientConnection(s) ==
    /\ alive /\ tcpServer = "listening" /\ cliStatus[s] = "new"
    /\ cliStatus' = [cliStatus EXCEPT ![s] = "open"]
    /\ Commit(handleClientConnectionResult(Daemon, s), Last("handleClientConnection", s, NoArg))
    /\ UNCHANGED now

onClientData(s, chunk) ==
    /\ alive /\ cliStatus[s] \in {"open", "broken"}
    /\ Commit(onClientDataResult(Daemon, s, chunk), Last("onClientData", s, chunk))
    /\ UNCHANGED <<now, cliStatus>>

onClientClose(s) ==
    /\ alive /\ cliStatus[s] \in {"open", "broken"}
    /\ cliStatus' = [cliStatus EXCEPT ![s] = "closed"]
    /\ Commit(onClientGoneResult(Daemon, s, "warn"), Last("onClientClose", s, NoArg))
    /\ UNCHANGED now

onClientError(s) ==
    /\ alive /\ cliStatus[s] \in {"open", "broken"}
    /\ cliStatus' = [cliStatus EXCEPT ![s] = "closed"]
    /\ Commit(onClientGoneResult(Daemon, s, "error"), Last("onClientError", s, NoArg))
    /\ UNCHANGED now

\* The transport of a downstream socket breaks: from now on write throws
BreakSocket(s) ==
    /\ alive /\ cliStatus[s] = "open"
    /\ cliStatus' = [cliStatus EXCEPT ![s] = "broken"]
    /\ Commit(Daemon, Last("BreakSocket", s, NoArg))
    /\ UNCHANGED now

\* Time passes between two handler runs
Tick ==
    /\ alive /\ now < NTicks * TickMs
    /\ now' = now + TickMs
    /\ Commit(Daemon, Last("Tick", 0, NoArg))
    /\ UNCHANGED cliStatus

\* The envelopes the upstream peer sends in the relay specification
UpInputs ==
    {UpAck("Ack", "d1"), UpAck("ack", Absent),
     UpEvent("TaskEvent", "taskStarted", "ok", "t1"),
     UpEvent("TaskEvent", "taskStarted", Absent, Absent),
     UpEvent("taskEvent", "taskCompleted", "ok", "t1"),
     UpMessage("say", "Hello"),
     UpEvent("Bogus", Absent, Absent, Absent),
     UpNull}

\* The "message" events of the timed specification
TimedInputs ==
    {UpMessage("say", "Hello"), UpMessage("ask", "Hello"), UpMessage("say", "{q:Hello}")}

\* The cache keys of the dedup specification
DedupKeys == {"Hello", "question:Hello"}

\* One direct call of logWithDeduplication
CallLogWithDeduplication(key) ==
    /\ Commit(logWithDeduplication(Daemon, "text", "info", key),
              Last("logWithDeduplication", 0,
                   [key |-> key, cached |-> key \in DOMAIN messageCache]))
    /\ UNCHANGED <<now, cliStatus>>

\* One direct call of formatQuestionMessage
CallFormatQuestionMessage(question) ==
    /\ Commit(formatQuestionMessage(Daemon, question),
              Last("formatQuestionMessage", 0,
                   [key |-> "question:" \o question,
                    cached |-> ("question:" \o question) \in DOMAIN messageCache]))
    /\ UNCHANGED <<now, cliStatus>>

DaemonNext ==
    \/ onIPCConnect /\ DaemonOnly
    \/ onIPCDisconnect /\ DaemonOnly
    \/ \E data \in UpInputs :
          Len(messageHistory) < MaxHistory /\ onIPCMessage(data) /\ DaemonOnly
    \/ \E s \in Sockets : handleClientConnection(s) /\ DaemonOnly
    \/ \E s \in Sockets, chunk \in ClientInputs : onClientData(s, chunk) /\ DaemonOnly
    \/ \E s \in Sockets : onClientClose(s) /\ DaemonOnly
    \/ \E s \in Sockets : onClientError(s) /\ DaemonOnly
    \/ \E s \in Sockets : BreakSocket(s) /\ DaemonOnly

TimedNext ==
    \/ onIPCConnect /\ DaemonOnly
    \/ \E data \in TimedInputs :
          Len(messageHistory) < MaxEvents /\ onIPCMessage(data) /\ DaemonOnly
    \/ \E s \in Sockets : handleClientConnection(s) /\ DaemonOnly
    \/ Tick /\ DaemonOnly

DedupNext ==
    \/ \E key \in DedupKeys : CallLogWithDeduplication(key) /\ DaemonOnly
    \/ CallFormatQuestionMessage("Hello") /\ DaemonOnly
    \/ Tick /\ DaemonOnly

LinkInit == linkIn = <<>> /\ linkOut = <<>>

\* The process once its listener is bound and its upstream link is being set up
ProcInit ==
    /\ tcpServer = "listening"
    /\ upAvailable = TRUE
    /\ ipcSocket = "connecting"
    /\ ipcAttempts = 0

\* The CLI right after its constructor (roo-cli) or its first connectToDaemon
CliInit ==
    /\ cliKind = "roo-cli"
    /\ cliConn = FALSE
    /\ rooConnected = FALSE
    /\ cliInbox = <<>>
    /\ cliSock = 0
    /\ cliPhase = "connecting"
    /\ daemonUp = TRUE
    /\ cliOut = <<>>
    /\ cliLast = [op |-> "none", cwd |-> Undefined]
    /\ cliAttempts = 0

\* options.port: never assigned, or parseInt's result, a number or NaN
Unset == [set |-> FALSE, nan |-> FALSE, n |-> 0]
NaN == [set |-> TRUE, nan |-> TRUE, n |-> 0]
Num(n) == [set |-> TRUE, nan |-> FALSE, n |-> n]

\* options = {} and remainingArgs = []
NoOptions == [port |-> Unset, host |-> Absent, cwd |-> Absent]
NotParsed == [done |-> FALSE, options |-> NoOptions, remainingArgs |-> <<>>]

\* No envelope: the argument of the blessed client's events that carry none
NoEnvelope == [type |-> Absent, clientId |-> Absent, eventName |-> Absent, arg |-> Absent]

\* No command line has been given
\* No session is stored
NoSessions == [t \in {} |-> [status |-> "active", lastActivity |-> 0]]

ArgInit ==
    /\ argv = <<>>
    /\ parsed = NotParsed
    /\ mainCommand = Undefined
    /\ mainPc = "start"
    /\ exitCode = -1
    /\ mainWhy = "none"
    /\ sessions = NoSessions
    /\ sessBefore = NoSessions
    /\ sessLast = [op |-> "none", maxAge |-> 0]
    /\ dateNow = 0
    /\ wire = <<>> /\ written = <<>> /\ handled = <<>>
    /\ socketPath = TRUE /\ pathExists = TRUE /\ socketWatcher = "none"
       /\ connectCalls = 1 /\ daemonPc = "running"
    /\ bConnected = FALSE /\ bReady = FALSE /\ bClientId = Null /\ bReadOnly = TRUE
       /\ bLink = "down" /\ bListeners = 0 /\ bAcked = Null /\ bRuns = 0
       /\ bSent = <<>> /\ bLast = [op |-> "none", arg |-> NoEnvelope] /\ bTask = Null

Init == SrvInit /\ DaemonInit /\ LinkInit /\ ProcInit /\ CliInit /\ ArgInit

\* A daemon that has run long enough for its cache to hold cacheSweepSize entries
\* under other keys
DedupInit ==
    /\ SrvInit
    /\ DaemonInit!1 /\ DaemonInit!2 /\ DaemonInit!3 /\ DaemonInit!4 /\ DaemonInit!5
    /\ DaemonInit!6 /\ DaemonInit!7
    /\ cacheFill \in {0, cacheSweepSize}
    /\ DaemonInit!9 /\ DaemonInit!10 /\ DaemonInit!11 /\ DaemonInit!12 /\ DaemonInit!13
    /\ DaemonInit!14 /\ DaemonInit!15 /\ DaemonInit!16 /\ DaemonInit!17 /\ DaemonInit!18
    /\ DaemonInit!19 /\ DaemonInit!20 /\ DaemonInit!21
    /\ LinkInit
    /\ ProcInit
    /\ CliInit
    /\ ArgInit

\* IpcServer on its own
SpecServer == Init /\ [][SrvNext]_vars

\* RooDaemon with the upstream peer and the downstream clients as its environment
SpecDaemon == Init /\ [][DaemonNext]_vars

\* RooDaemon receiving "message" events while time passes
SpecTimed == Init /\ [][TimedNext]_vars

\* The dedup cache under direct calls of its two writers while time passes
SpecDedup == DedupInit /\ [][DedupNext]_vars

\* ======================================================================
\* RooDaemon connected to IpcServer: the daemon's upstream link is socket
\* Link of the server; the other sockets of the server are other IPC clients
\* ======================================================================

Link == 1

\* The two layouts of one envelope: as IpcServer writes it and as onIPCMessage reads it
ToDaemon(msg) ==
    IF msg.type = "Ack" THEN UpAck("Ack", msg.data.clientId) ELSE msg
ToServer(cmd) ==
    [shape |-> "object", type |-> cmd.type, origin |-> cmd.origin,
     clientId |-> cmd.clientId, data |-> 1]

\* What the running server handler has written to the daemon's socket
SentToLink == SelectSeq(srvSent', LAMBDA m : m.to = Link)
LinkDeliveries == [i \in 1..Len(SentToLink) |-> ToDaemon(SentToLink[i].msg)]

BridgeSrvInputs ==
    {[shape |-> "object", type |-> "TaskCommand", origin |-> "client",
      clientId |-> "c1", data |-> 1]}
BridgeEvents == {UpEvent("TaskEvent", "taskStarted", "ok", "t1")}
BridgeChunks ==
    {[ClientBase EXCEPT !.type = "sendTask", !.hasData = TRUE, !.text = "do"]}

\* The server accepts a connection (the daemon's, or another client's)
B_onConnect(s) ==
    /\ onConnect(s)
    /\ ServerOnly

\* Another client goes away; the daemon's link stays up
B_onDisconnect(s) ==
    /\ s # Link
    /\ onDisconnect(s)
    /\ ServerOnly

\* The server handles a message: the next one the daemon emitted, on Link, or
\* one of another client
B_onMessage(s) ==
    /\ \E data \in IF s = Link
                    THEN (IF linkOut # <<>> THEN {ToServer(Head(linkOut))} ELSE {})
                    ELSE BridgeSrvInputs :
          /\ onMessage(s, data)
          /\ linkIn' = linkIn \o LinkDeliveries
    /\ linkOut' = IF s = Link THEN Tail(linkOut) ELSE linkOut
    /\ UNCHANGED <<daemonVars, otherVars>>

\* IpcServer.broadcast(message): ipc.server.broadcast writes to every connected socket
broadcast(message) ==
    /\ Len(linkIn) < MaxQueue
    /\ \E s \in Sockets : sockStatus[s] = "open"
    /\ srvSent' = [i \in 1..Cardinality({s \in Sockets : sockStatus[s] = "open"}) |->
                      [to |-> CHOOSE s \in Sockets :
                                 /\ sockStatus[s] = "open"
                                 /\ Cardinality({t \in Sockets : sockStatus[t] = "open" /\ t < s}) = i - 1,
                       msg |-> message]]
    /\ srvEvents' = <<>>
    /\ srvTrace' = [i \in 1..Cardinality({s \in Sockets : sockStatus[s] = "open"}) |->
                       Did("send", message.type, Absent)]
    /\ srvLast' = [op |-> "broadcast", socket |-> 0, data |-> NoInput]
    /\ srvBefore' = ipcClients
    /\ linkIn' = linkIn \o LinkDeliveries
    /\ UNCHANGED <<sockStatus, ipcClients, srvDropped, srvCounts, linkOut, daemonVars, otherVars>>

\* The daemon's connect event, once the server has accepted the connection
B_onIPCConnect ==
    /\ sockStatus[Link] = "open"
    /\ onIPCConnect
    /\ DaemonOnly

\* The daemon handles the next message of its link
B_onIPCMessage ==
    /\ linkIn # <<>>
    /\ Len(messageHistory) < MaxHistory
    /\ onIPCMessage(Head(linkIn))
    /\ linkIn' = Tail(linkIn)
    /\ UNCHANGED <<srvVars, linkOut, otherVars>>

B_handleClientConnection(s) ==
    /\ handleClientConnection(s)
    /\ DaemonOnly

\* A downstream client writes a sendTask; what sendTaskToRoo emits goes on the link
B_onClientData(s, chunk) ==
    /\ onClientData(s, chunk)
    /\ linkOut' = linkOut \o dUp'
    /\ UNCHANGED <<srvVars, linkIn, otherVars>>

BridgeNext ==
    \/ \E s \in Sockets : B_onConnect(s)
    \/ \E s \in Sockets : B_onDisconnect(s)
    \/ \E s \in Sockets : B_onMessage(s)
    \/ \E ev \in BridgeEvents : broadcast(ev)
    \/ B_onIPCConnect
    \/ B_onIPCMessage
    \/ \E s \in Sockets : B_handleClientConnection(s)
    \/ \E s \in Sockets, chunk \in BridgeChunks : B_onClientData(s, chunk)

\* The event loops run every handler whose event is pending: the server reads
\* what is on the link, the daemon gets its connect event and reads its messages
BridgeFairness ==
    /\ WF_vars(B_onConnect(Link))
    /\ WF_vars(B_onMessage(Link))
    /\ WF_vars(B_onIPCConnect)
    /\ WF_vars(B_onIPCMessage)

SpecBridge == Init /\ [][BridgeNext]_vars /\ BridgeFairness

\* ======================================================================
\* The daemon process: its listener and the life of its upstream link
\* (setupTCPServer, connectToIPC with ipc.config.retry and no maxRetries)
\* ======================================================================

\* tcpServer.listen's callback
listenCallback ==
    /\ alive /\ tcpServer = "pending"
    /\ tcpServer' = "listening"
    /\ Commit(Log(Log(Daemon, "success", "TCP server listening"),
                  "info", "CLI clients can connect"),
              Last("listenCallback", 0, NoArg))
    /\ UNCHANGED <<now, cliStatus, upAvailable, ipcSocket, ipcAttempts>>

\* tcpServer.on('error'): the bind failed (address in use, permission denied)
listenError ==
    /\ alive /\ tcpServer = "pending"
    /\ tcpServer' = "failed"
    /\ Commit(Log(Daemon, "error", "TCP server error"), Last("listenError", 0, NoArg))
    /\ UNCHANGED <<now, cliStatus, upAvailable, ipcSocket, ipcAttempts>>

\* The 'connect' event of the link: an attempt on an available endpoint succeeds
ipcConnect ==
    /\ ipcSocket = "connecting" /\ upAvailable
    /\ ipcSocket' = "open"
    /\ onIPCConnect
    /\ UNCHANGED <<tcpServer, upAvailable, ipcAttempts>>

\* The 'error' event of the link: a failed attempt, or a transport error on
\* the open link; the handler logs it
ipcError ==
    /\ alive
    /\ \/ ipcSocket = "connecting" /\ ~upAvailable
       \/ ipcSocket = "open"
    /\ ipcSocket' = "errored"
    /\ Commit(Log(Daemon, "error", "IPC Error"), Last("onIPCError", 0, NoArg))
    /\ UNCHANGED <<now, cliStatus, tcpServer, upAvailable, ipcAttempts>>

\* The socket closes after its error: 'disconnect', and the retry timer is armed
ipcClose ==
    /\ ipcSocket = "errored"
    /\ ipcSocket' = "retryWait"
    /\ onIPCDisconnect
    /\ UNCHANGED <<tcpServer, upAvailable, ipcAttempts>>

\* The peer closes the open link: 'disconnect', and the retry timer is armed
ipcPeerClose ==
    /\ ipcSocket = "open"
    /\ ipcSocket' = "retryWait"
    /\ onIPCDisconnect
    /\ UNCHANGED <<tcpServer, upAvailable, ipcAttempts>>

\* The retry timer (ipc.config.retry = 1500) fires: the next attempt
ipcRetry ==
    /\ alive /\ ipcSocket = "retryWait"
    /\ ipcSocket' = "connecting"
    /\ ipcAttempts' = IF ipcAttempts < MaxAttempts THEN ipcAttempts + 1 ELSE ipcAttempts
    /\ UNCHANGED <<tcpServer, upAvailable, srvVars, daemonVars, linkVars, cliVars, argVars>>

\* The upstream endpoint goes away, or comes back
EndpointToggle ==
    /\ upAvailable' = ~upAvailable
    /\ UNCHANGED <<tcpServer, ipcSocket, ipcAttempts, srvVars, daemonVars, linkVars, cliVars,
                   argVars>>

\* A message on the open link
ipcMessage(data) ==
    /\ ipcSocket = "open"
    /\ Len(messageHistory) < MaxHistory
    /\ onIPCMessage(data)
    /\ UNCHANGED procVars

ProcInputs == {UpAck("Ack", "d1")}

ProcFrame == UNCHANGED <<srvVars, linkVars, cliVars, argVars>>

ProcNext ==
    \/ listenCallback /\ ProcFrame
    \/ listenError /\ ProcFrame
    \/ ipcConnect /\ ProcFrame
    \/ ipcError /\ ProcFrame
    \/ ipcClose /\ ProcFrame
    \/ ipcPeerClose /\ ProcFrame
    \/ ipcRetry
    \/ EndpointToggle
    \/ \E data \in ProcInputs : ipcMessage(data) /\ ProcFrame
    \/ \E s \in Sockets : handleClientConnection(s) /\ DaemonOnly
    \/ \E s \in Sockets, chunk \in BridgeChunks : onClientData(s, chunk) /\ DaemonOnly

\* The process right after `new RooDaemon(options)`: listen has been called and
\* the first attempt on the upstream link is under way
ProcStartInit ==
    /\ SrvInit /\ DaemonInit /\ LinkInit /\ CliInit /\ ArgInit
    /\ tcpServer = "pending"
    /\ upAvailable \in BOOLEAN
    /\ ipcSocket = "connecting"
    /\ ipcAttempts = 1

\* Timers fire, a closed socket's events are delivered, and an attempt on an
\* available endpoint succeeds
ProcFairness ==
    /\ WF_vars(ipcRetry)
    /\ WF_vars(ipcClose /\ ProcFrame)
    /\ WF_vars(ipcConnect /\ ProcFrame)

SpecProcess == ProcStartInit /\ [][ProcNext]_vars /\ ProcFairness

\* ======================================================================
\* The daemon accepting downstream connections late in its life: the
\* history already holds about historyTail entries
\* ======================================================================

\* After n Acks on the connected link
AfterAcks(n) ==
    /\ SrvInit /\ LinkInit /\ ProcInit /\ CliInit /\ ArgInit
    /\ DaemonInit!1 /\ DaemonInit!4 /\ DaemonInit!5
    /\ connected = TRUE
    /\ clientId = "d1"
    /\ messageHistory = [i \in 1..n |-> UpAck("Ack", "d1")]
    /\ DaemonInit!7 /\ DaemonInit!8 /\ DaemonInit!9 /\ DaemonInit!10
    /\ DaemonInit!11 /\ DaemonInit!12 /\ DaemonInit!13 /\ DaemonInit!14
    /\ DaemonInit!15 /\ DaemonInit!16 /\ DaemonInit!17 /\ DaemonInit!18
    /\ DaemonInit!19 /\ DaemonInit!20 /\ DaemonInit!21

WelcomeInit == \E n \in {0, historyTail - 1} : AfterAcks(n)

WelcomeInputs == {UpAck("Ack", "d1"), UpEvent("TaskEvent", "taskStarted", "ok", "t1")}

WelcomeNext ==
    \/ onIPCConnect /\ DaemonOnly
    \/ onIPCDisconnect /\ DaemonOnly
    \/ \E data \in WelcomeInputs :
          /\ \/ Len(messageHistory) < MaxHistory
             \/ /\ Len(messageHistory) >= historyTail - 1
                /\ Len(messageHistory) < historyTail + MaxHistory
          /\ onIPCMessage(data) /\ DaemonOnly
    \/ \E s \in Sockets : handleClientConnection(s) /\ DaemonOnly
    \/ \E s \in Sockets, chunk \in BridgeChunks : onClientData(s, chunk) /\ DaemonOnly
    \/ \E s \in Sockets : onClientClose(s) /\ DaemonOnly

SpecWelcome == WelcomeInit /\ [][WelcomeNext]_vars

\* ======================================================================
\* Properties of IpcServer
\* ======================================================================

\* The last handler run was onMessage on a message that passed both checks
\* and has origin client
LastValidClient ==
    /\ srvLast.op = "message"
    /\ TypeofObject(srvLast.data)
    /\ ipcMessageSchema(srvLast.data)
    /\ srvLast.data.origin = "client"

LastDropped ==
    /\ srvLast.op = "message"
    /\ ~(TypeofObject(srvLast.data) /\ ipcMessageSchema(srvLast.data))

SentAcks == {i \in 1..Len(srvSent) : srvSent[i].msg.type = "Ack"}
ConnectEvents == {i \in 1..Len(srvEvents) : srvEvents[i].name = "Connect"}
CommandEvents == {i \in 1..Len(srvEvents) : srvEvents[i].name = "TaskCommand"}
EntriesOf(m, k) == {i \in 1..Len(m) : m[i].clientId = k}

\* C1: a valid client-origin message whose clientId is already registered
\* leaves the registry as it was (same entries, same binding, same size) and
\* produces no Ack and no Connect event, whichever socket it arrives on.
C1_DuplicateRegistrationIsNoop ==
    (LastValidClient /\ MapHas(srvBefore, srvLast.data.clientId)) =>
        /\ ipcClients = srvBefore
        /\ MapGet(ipcClients, srvLast.data.clientId) = MapGet(srvBefore, srvLast.data.clientId)
        /\ Len(ipcClients) = Len(srvBefore)
        /\ SentAcks = {}
        /\ ConnectEvents = {}

\* C1 witness: a duplicate clientId arrived on another socket than the bound one
C1_Witness ==
    /\ LastValidClient
    /\ MapHas(srvBefore, srvLast.data.clientId)
    /\ MapGet(srvBefore, srvLast.data.clientId) # srvLast.socket

\* C2: a valid client-origin message with an unregistered clientId creates
\* exactly one entry, bound to the sending socket, and sends exactly one Ack
\* {clientId, pid, ppid} with that clientId, to the sending socket only; from
\* an empty registry the size becomes 1.
C2_FreshRegistrationAcks ==
    (LastValidClient /\ ~MapHas(srvBefore, srvLast.data.clientId)) =>
        /\ Len(ipcClients) = Len(srvBefore) + 1
        /\ SubSeq(ipcClients, 1, Len(srvBefore)) = srvBefore
        /\ Cardinality(EntriesOf(ipcClients, srvLast.data.clientId)) = 1
        /\ MapGet(ipcClients, srvLast.data.clientId) = srvLast.socket
        /\ srvSent = <<[to |-> srvLast.socket,
                        msg |-> [type |-> "Ack", origin |-> "server",
                                 data |-> [clientId |-> srvLast.data.clientId,
                                           pid |-> "pid", ppid |-> "ppid"]]]>>
        /\ (srvBefore = <<>> => Len(ipcClients) = 1)

\* C2 witness: a second clientId has been registered, from another socket
C2_Witness ==
    /\ LastValidClient
    /\ ~MapHas(srvBefore, srvLast.data.clientId)
    /\ Len(srvBefore) = 1
    /\ srvBefore[1].socket # srvLast.socket
    /\ Len(srvSent) = 1

\* C3: an input that is not an object or fails the schema is dropped (registry
\* unchanged, nothing sent, nothing emitted) and its socket stays open; a later
\* valid message on such a socket is registered and acknowledged as usual.
C3_InvalidInputDropped ==
    /\ LastDropped =>
            /\ ipcClients = srvBefore
            /\ srvSent = <<>>
            /\ srvEvents = <<>>
            /\ sockStatus[srvLast.socket] = "open"
    /\ (/\ LastValidClient
        /\ srvLast.socket \in srvDropped
        /\ ~MapHas(srvBefore, srvLast.data.clientId)) =>
            /\ MapGet(ipcClients, srvLast.data.clientId) = srvLast.socket
            /\ Cardinality(SentAcks) = 1
            /\ Cardinality(ConnectEvents) = 1
            /\ (srvLast.data.type = "TaskCommand" <=> CommandEvents # {})

\* C3 witness: a socket one of whose messages was dropped has then sent a
\* TaskCommand that registered it
C3_Witness ==
    /\ LastValidClient
    /\ srvLast.socket \in srvDropped
    /\ srvLast.data.type = "TaskCommand"
    /\ MapGet(ipcClients, srvLast.data.clientId) = srvLast.socket
    /\ ~MapHas(srvBefore, srvLast.data.clientId)

\* C10 (as claimed): after onDisconnect(socket) no entry is bound to the socket;
\* a socket without an entry changes nothing and emits no Disconnect.
C10_NoEntryAfterDisconnect ==
    srvLast.op = "disconnect" =>
        /\ srvLast.socket \notin MapSockets(ipcClients)
        /\ (srvLast.socket \notin MapSockets(srvBefore) =>
                ipcClients = srvBefore /\ srvEvents = <<>>)

\* ======================================================================
\* Properties of RooDaemon
\* ======================================================================

Range(q) == {q[i] : i \in 1..Len(q)}
BrokenBefore == {s \in dBefore : cliStatus[s] = "broken"}
LoggedAt(level) == {i \in 1..Len(dLog) : dLog[i].level = level}

\* C4: in a handler run that broadcasts, every socket of the client set whose
\* write does not throw receives each broadcast message exactly once and stays
\* in the set; a socket whose write throws is written once, receives nothing and
\* leaves the set; the set shrinks by exactly the failing sockets; a socket that
\* is not in the set (removed earlier) is not written to.
C4_BroadcastDelivery ==
    dBcast # <<>> =>
        /\ \A s \in Sockets :
             /\ (s \in dBefore /\ cliStatus[s] # "broken") =>
                    dSent[s] = dBcast /\ dTried[s] = Len(dBcast) /\ s \in clients
             /\ (s \in dBefore /\ cliStatus[s] = "broken") =>
                    dSent[s] = <<>> /\ dTried[s] = 1 /\ s \notin clients
             /\ s \notin dBefore =>
                    dSent[s] = <<>> /\ dTried[s] = 0 /\ s \notin clients
        /\ Cardinality(clients) = Cardinality(dBefore) - Cardinality(BrokenBefore)

\* C4 witness: of two clients one failed on the write and was removed, the other
\* received the message
C4_Witness ==
    \E s, t \in Sockets :
        /\ dBcast # <<>>
        /\ s \in dBefore /\ cliStatus[s] = "broken" /\ s \notin clients
        /\ t \in dBefore /\ t \in clients /\ dSent[t] = dBcast

LastSendTask ==
    /\ dLast.op = "onClientData"
    /\ dLast.arg.json = "object"
    /\ dLast.arg.type = "sendTask"
    /\ dLast.arg.hasData

Ready == connected /\ Truthy(clientId)

\* C7: a sendTask handled while the daemon is not Ready emits nothing upstream
\* and writes exactly one error message to the requesting client (when its write
\* does not throw); nothing is kept for later: whatever is emitted upstream is
\* the command of the sendTask being handled, by a Ready daemon.
C7_NotReadyIsAnError ==
    /\ (LastSendTask /\ ~Ready) =>
            /\ dUp = <<>>
            /\ cliStatus[dLast.socket] = "open" =>
                    /\ Len(dSent[dLast.socket]) = 1
                    /\ dSent[dLast.socket][1].type = "error"
                    /\ dSent[dLast.socket][1].data.message =
                           IF connected THEN "Connection not fully established"
                           ELSE "Not connected to Roo Code"
    /\ dUp # <<>> =>
            /\ LastSendTask /\ Ready
            /\ Len(dUp) = 1
            /\ dUp[1].text = dLast.arg.text
            /\ dUp[1].clientId = clientId

\* C7 witness: connected, no Ack yet, and the requester has got its error
C7_Witness ==
    /\ LastSendTask
    /\ connected /\ ~Truthy(clientId)
    /\ cliStatus[dLast.socket] = "open"
    /\ Len(dSent[dLast.socket]) = 1

LastUnknownType ==
    /\ dLast.op = "onIPCMessage"
    /\ dLast.arg.shape = "object"
    /\ dLast.arg.type \notin {"ack", "Ack", "taskEvent", "TaskEvent"}

ThreeCalls(key) ==
    /\ key \in DOMAIN dedupCalls
    /\ Len(dedupCalls[key]) = 3
    /\ \A i \in 1..3 : dedupCalls[key][i].fn = "log"
    /\ dedupCalls[key][1].emit
    /\ dedupCalls[key][2].t - dedupCalls[key][1].t <= cooldownPeriod
    /\ dedupCalls[key][3].t - dedupCalls[key][1].t > cooldownPeriod

\* C5: of three successive logWithDeduplication calls on one key, the first
\* emitting and the second within the cooldown, the second is suppressed; the
\* third, made more than the cooldown after the first, emits again.
C5_EmitSuppressEmit ==
    \A key \in DOMAIN dedupCalls :
        /\ \A i \in 1..(Len(dedupCalls[key]) - 1) :
              (/\ dedupCalls[key][i].fn = "log" /\ dedupCalls[key][i + 1].fn = "log"
               /\ dedupCalls[key][i].emit
               /\ dedupCalls[key][i + 1].t - dedupCalls[key][i].t <= cooldownPeriod)
              => ~dedupCalls[key][i + 1].emit
        /\ ThreeCalls(key) => dedupCalls[key][3].emit

\* C5 witness: emit, suppress exactly one cooldown later, emit again, with the
\* cache over its sweep size at each emitting call
C5_Witness ==
    \E key \in DOMAIN dedupCalls :
        /\ ThreeCalls(key)
        /\ dedupCalls[key][2].t - dedupCalls[key][1].t = cooldownPeriod
        /\ ~dedupCalls[key][2].emit
        /\ dedupCalls[key][3].emit
        /\ cacheFill = cacheSweepSize
        /\ dLast.op = "logWithDeduplication"

LastSayHello ==
    /\ dLast.op = "onIPCMessage"
    /\ dLast.arg = UpMessage("say", "Hello")

LastDecision(key) == dedupCalls[key][Len(dedupCalls[key])]
IpcMessagesTo(s) == {i \in 1..Len(dSent[s]) : dSent[s][i].type = "ipcMessage"}

C8_ConnectedLeadsToReady == connected ~> (connected /\ Truthy(clientId))

\* ---- the daemon process ----

\* C11 (as claimed): a failed bind of the downstream listener is fatal; the
\* daemon does not keep running without a listener.
C11_ListenFailureFatal == tcpServer = "failed" => ~alive

\* C12: an error or close on the upstream link leaves the daemon running and
\* Disconnected (connected = FALSE, clientId = null); attempts are repeated
\* without bound, so that if the endpoint is available from some point on, the
\* daemon is connected again and again.
C12_DisconnectedThenReconnects ==
    /\ [](dLast.op = "onIPCDisconnect" => (alive /\ ~connected /\ clientId = Null))
    /\ [](dLast.op = "onIPCError" => alive)
    /\ (ipcSocket = "errored") ~> (ipcSocket = "retryWait" /\ ~connected /\ clientId = Null)
    /\ (<>[]upAvailable) => ([]<>connected)

\* C12 witness: the daemon, which held a clientId, is connected again by an
\* attempt later than its first
C12_Witness ==
    /\ dLast.op = "onIPCConnect"
    /\ connected /\ alive
    /\ clientId = Null
    /\ messageHistory # <<>>
    /\ ipcAttempts = MaxAttempts

\* ---- the relay of upstream messages ----

\* The last handler run was onIPCMessage
LastUpstream == dLast.op = "onIPCMessage"

\* The last handler run broadcast exactly one ipcMessage, carrying its argument,
\* after anything else it broadcast
OneIpcMessage ==
    /\ {i \in 1..Len(dBcast) : dBcast[i].type = "ipcMessage"} = {Len(dBcast)}
    /\ dBcast[Len(dBcast)].data = dLast.arg
    /\ \A s \in dBefore : cliStatus[s] = "open" =>
          /\ dSent[s] = dBcast

\* C13 (as claimed): for every message received from the upstream peer exactly
\* one ipcMessage carrying it unmodified is broadcast, by the handler run of
\* that message (hence in the order received), whatever the dedup cache holds.
C13_EveryMessageBroadcastOnce == LastUpstream => OneIpcMessage

\* What does hold: every message whose handler run completes is broadcast so
HandledMessageBroadcastOnce == (LastUpstream /\ alive) => OneIpcMessage

\* ---- accepting a downstream connection ----

LastAccept == dLast.op = "handleClientConnection"

\* w is the welcome of the daemon's present state: its flags, and the last
\* historyTail entries of the history, in order
WelcomeOfNow(w) ==
    /\ w.type = "welcome"
    /\ w.data.connected = connected
    /\ w.data.clientId = clientId
    /\ w.data.currentTask = currentTask
    /\ Len(w.data.messageHistory) =
          (IF Len(messageHistory) < historyTail THEN Len(messageHistory) ELSE historyTail)
    /\ \A i \in 1..Len(w.data.messageHistory) :
          w.data.messageHistory[i] =
             messageHistory[Len(messageHistory) - Len(w.data.messageHistory) + i]

\* C14: nothing is written to a socket before it is accepted; the first message
\* ever written to it is the welcome of the daemon's state at accept time, and
\* one status with connected = false follows it exactly when the daemon is not
\* Ready then.
C14_WelcomeFirst ==
    /\ \A s \in Sockets :
          /\ cliFirst[s] \in {"none", "welcome"}
          /\ cliStatus[s] = "new" => (cliFirst[s] = "none" /\ dSent[s] = <<>>)
    /\ LastAccept =>
          LET out == dSent[dLast.socket]
          IN  /\ Len(out) >= 1
              /\ WelcomeOfNow(out[1])
              /\ cliFirst[dLast.socket] = "welcome"
              /\ IF connected /\ Truthy(clientId)
                 THEN Len(out) = 1
                 ELSE /\ Len(out) = 2
                      /\ out[2].type = "status"
                      /\ out[2].data.connected = FALSE

\* C14 witness: a connection accepted by a daemon that is not Ready and whose
\* history has outgrown historyTail: welcome with the last ten, then status
C14_Witness ==
    /\ LastAccept
    /\ Len(messageHistory) > historyTail
    /\ Len(dSent[dLast.socket]) = 2
    /\ Len(dSent[dLast.socket][1].data.messageHistory) = historyTail
    /\ currentTask = "t1"

\* ---------------------------------------------------------------------------
\* The CLI clients of the daemon: RooCLI (roo-cli.js) and RooCLIEnhanced
\* ---------------------------------------------------------------------------

CliKinds == {"roo-cli", "enhanced"}

\* Messages the CLI may leave unprocessed before the daemon's next step
MaxInbox == 2

\* JavaScript's `a && !!b` for a boolean a
AndTruthy(a, b) == IF a THEN Truthy(b) ELSE FALSE

\* RooCLI.processDaemonMessage(message): the new value of rooConnected
RooCLI_processDaemonMessage(rc, message) ==
    CASE message.type = "welcome" -> AndTruthy(message.data.connected, message.data.clientId)
      [] message.type = "status"  -> message.data.connected
      [] message.type = "ready"   -> TRUE
      [] OTHER -> rc

\* RooCLIEnhanced.processDaemonMessage(message): the new value of rooConnected
RooCLIEnhanced_processDaemonMessage(rc, message) ==
    CASE message.type = "welcome" -> AndTruthy(message.data.connected, message.data.clientId)
      [] message.type = "ready"   -> TRUE
      [] OTHER -> rc

processDaemonMessage(kind, rc, message) ==
    IF kind = "roo-cli" THEN RooCLI_processDaemonMessage(rc, message)
    ELSE RooCLIEnhanced_processDaemonMessage(rc, message)

\* The directory the CLI process runs in (process.cwd())
ProcessCwd == "/home"

\* What can follow --cwd on the command line: nothing (the option is not
\* given), an empty word, a path
CwdOptions == {Undefined, "", "/w"}

\* main, case 'start': taskOptions of the parsed options
taskOptions(optCwd) == IF Truthy(optCwd) THEN optCwd ELSE Undefined

\* startTask without the process.cwd() default
startTaskMessageNoDefault(prompt, optCwd) ==
    [type |-> "sendTask", data |-> [text |-> prompt, cwd |-> optCwd]]

\* RooCLIEnhanced.startTask(prompt, options): the message it writes
startTaskMessage(prompt, optCwd) ==
    [type |-> "sendTask",
     data |-> [text |-> prompt, cwd |-> IF Truthy(optCwd) THEN optCwd ELSE ProcessCwd]]

\* RooCLI.sendTask(text): the message it writes, which has no cwd
sendTaskMessage(text) ==
    [type |-> "sendTask", data |-> [text |-> text, cwd |-> Undefined]]

\* JSON.stringify(message) as the daemon's JSON.parse reads it back: a key
\* whose value is undefined is left out
JsonStringify(message) ==
    [ClientBase EXCEPT !.type = message.type, !.hasData = TRUE, !.text = message.data.text,
                       !.cwd = IF message.data.cwd = Undefined THEN Absent
                               ELSE message.data.cwd]

\* What the daemon's step wrote to the CLI's socket reaches the CLI's inbox
Delivered ==
    cliInbox' = IF cliSock # 0 /\ cliPhase = "connected"
                THEN cliInbox \o dSent'[cliSock] ELSE cliInbox

\* socket 'connect' on the CLI, and the daemon's accept of that connection
C_connect(s) ==
    /\ cliPhase = "connecting"
    /\ handleClientConnection(s)
    /\ cliConn' = TRUE
    /\ cliPhase' = "connected"
    /\ cliSock' = s
    /\ cliInbox' = dSent'[s]
    /\ UNCHANGED <<cliKind, rooConnected, daemonUp, cliOut, cliLast, cliAttempts,
                   srvVars, linkVars, procVars, argVars>>

\* socket 'data' on the CLI: handleDaemonMessage hands the next message to
\* processDaemonMessage
C_data ==
    /\ cliPhase = "connected" /\ cliInbox # <<>>
    /\ rooConnected' = processDaemonMessage(cliKind, rooConnected, Head(cliInbox))
    /\ cliInbox' = Tail(cliInbox)
    /\ UNCHANGED <<cliKind, cliConn, cliSock, cliPhase, daemonUp, cliOut, cliLast, cliAttempts,
                   srvVars, daemonVars, linkVars, procVars, argVars>>

\* socket 'close' on the CLI: both flags fall; RooCLI arms the 3 s timer,
\* RooCLIEnhanced schedules nothing
cliOnClose ==
    /\ cliConn' = FALSE
    /\ rooConnected' = FALSE
    /\ cliInbox' = <<>>
    /\ cliOut' = <<>>
    /\ cliPhase' = IF cliKind = "roo-cli" THEN "waiting" ELSE "idle"
    /\ UNCHANGED <<cliKind, cliSock, daemonUp, cliLast, cliAttempts>>

\* the CLI's connection ends: 'close' on both of its ends
C_close ==
    /\ cliPhase = "connected"
    /\ onClientClose(cliSock)
    /\ cliOnClose
    /\ UNCHANGED <<srvVars, linkVars, procVars, argVars>>

\* a timer that fires without reconnecting
cliTimerGivesUp ==
    /\ cliPhase = "waiting"
    /\ cliPhase' = "idle"
    /\ UNCHANGED <<cliKind, cliConn, rooConnected, cliInbox, cliSock, daemonUp,
                   cliOut, cliLast, cliAttempts>>

\* the timer of the 'close' handler: if (!this.connected) this.connectToDaemon()
cliTimer ==
    /\ cliPhase = "waiting"
    /\ cliPhase' = IF ~cliConn THEN "connecting" ELSE "idle"
    /\ cliAttempts' = IF ~cliConn /\ cliAttempts < MaxAttempts
                      THEN cliAttempts + 1 ELSE cliAttempts
    /\ UNCHANGED <<cliKind, cliConn, rooConnected, cliInbox, cliSock, daemonUp,
                   cliOut, cliLast>>

C_timer == cliTimer /\ UNCHANGED <<srvVars, daemonVars, linkVars, procVars, argVars>>

\* a step of the daemon's upstream side, seen from the CLI
C_daemon(A) ==
    /\ Len(cliInbox) < MaxInbox
    /\ A
    /\ Delivered
    /\ UNCHANGED <<cliKind, cliConn, rooConnected, cliSock, cliPhase, daemonUp,
                   cliOut, cliLast, cliAttempts, srvVars, linkVars, procVars, argVars>>

\* `roo-cli start <prompt> [--cwd <dir>]`: main builds taskOptions and
\* startTask writes the sendTask message (it throws unless both flags are set)
C_startTask(optCwd) ==
    /\ cliKind = "enhanced" /\ cliPhase = "connected" /\ cliConn /\ rooConnected
    /\ cliLast.op = "none"
    /\ cliOut' = Append(cliOut, JsonStringify(startTaskMessage("do", taskOptions(optCwd))))
    /\ cliLast' = [op |-> "startTask", cwd |-> optCwd]
    /\ UNCHANGED <<cliKind, cliConn, rooConnected, cliInbox, cliSock, cliPhase, daemonUp,
                   cliAttempts, srvVars, daemonVars, linkVars, procVars, argVars>>

\* RooCLI.sendTask(text), for a line typed at the prompt
C_sendTask ==
    /\ cliKind = "roo-cli" /\ cliPhase = "connected"
    /\ Len(cliOut) < MaxQueue
    /\ cliOut' = Append(cliOut, JsonStringify(sendTaskMessage("do")))
    /\ cliLast' = [op |-> "sendTask", cwd |-> Undefined]
    /\ UNCHANGED <<cliKind, cliConn, rooConnected, cliInbox, cliSock, cliPhase, daemonUp,
                   cliAttempts, srvVars, daemonVars, linkVars, procVars, argVars>>

\* the daemon reads what the CLI wrote
C_clientData ==
    /\ cliPhase = "connected" /\ cliOut # <<>>
    /\ Len(cliInbox) < MaxInbox
    /\ onClientData(cliSock, Head(cliOut))
    /\ cliOut' = Tail(cliOut)
    /\ Delivered
    /\ UNCHANGED <<cliKind, cliConn, rooConnected, cliSock, cliPhase, daemonUp, cliLast,
                   cliAttempts, srvVars, linkVars, procVars, argVars>>

CliUpstream == {UpAck("Ack", "d1")}

CliNext ==
    \/ \E s \in Sockets : C_connect(s)
    \/ C_data
    \/ C_close
    \/ C_timer
    \/ C_daemon(onIPCConnect)
    \/ C_daemon(onIPCDisconnect)
    \/ \E data \in CliUpstream :
          Len(messageHistory) < MaxHistory /\ C_daemon(onIPCMessage(data))
    \/ \E optCwd \in CwdOptions : C_startTask(optCwd)
    \/ C_sendTask
    \/ C_clientData

CliStartInit ==
    /\ SrvInit /\ DaemonInit /\ LinkInit /\ ProcInit /\ ArgInit
    /\ cliKind \in CliKinds
    /\ cliConn = FALSE
    /\ rooConnected = FALSE
    /\ cliInbox = <<>>
    /\ cliSock = 0
    /\ cliPhase = "connecting"
    /\ daemonUp = TRUE
    /\ cliOut = <<>>
    /\ cliLast = [op |-> "none", cwd |-> Undefined]
    /\ cliAttempts = 0

SpecCli == CliStartInit /\ [][CliNext]_vars

\* C15: whenever a CLI's rooConnected is true and the CLI has processed every
\* message the daemon has sent to it so far, the daemon is Ready: connected to
\* the upstream and holding the client id assigned by an Ack.
C15_RooConnectedMeansReady ==
    (rooConnected /\ cliPhase = "connected" /\ cliInbox = <<>>)
        => (connected /\ Truthy(clientId))

\* --- C16 ---
\* the last handler run processed a TaskCommand that registered its sender
FirstMessageIsCommand ==
    /\ srvLast.op = "message"
    /\ TypeofObject(srvLast.data) /\ ipcMessageSchema(srvLast.data)
    /\ srvLast.data.origin = "client"
    /\ srvLast.data.type = "TaskCommand"
    /\ ~MapHas(srvBefore, srvLast.data.clientId)

TraceAt(kind, name) ==
    {i \in 1..Len(srvTrace) : srvTrace[i].kind = kind /\ srvTrace[i].name = name}

\* C16: a client whose first message, the one that registers it, is a
\* TaskCommand receives one Ack on its socket, the command is emitted exactly
\* once with the client's id and data, and the Ack is sent before the
\* TaskCommand is emitted.
C16_AckBeforeCommand ==
    FirstMessageIsCommand =>
        /\ srvSent = <<[to |-> srvLast.socket, msg |-> AckMessage(srvLast.data.clientId)]>>
        /\ Cardinality({i \in 1..Len(srvEvents) : srvEvents[i].name = "TaskCommand"}) = 1
        /\ \E i \in 1..Len(srvEvents) :
              srvEvents[i] = [name |-> "TaskCommand", clientId |-> srvLast.data.clientId,
                              data |-> srvLast.data.data]
        /\ Cardinality(TraceAt("send", "Ack")) = 1
        /\ Cardinality(TraceAt("emit", "TaskCommand")) = 1
        /\ \A i \in TraceAt("send", "Ack"), j \in TraceAt("emit", "TaskCommand") : i < j

C16_Witness ==
    /\ FirstMessageIsCommand
    /\ srvLast.data.clientId = "c2"
    /\ srvBefore # <<>>
    /\ Len(srvTrace) = 3
    /\ srvTrace[1].name = "Ack" /\ srvTrace[3].name = "TaskCommand"

\* --- C17 ---
\* the sendTask message startTask has just written, still unread
JustWritten == cliLast.op = "startTask" /\ cliOut # <<>>
\* the daemon has just turned a sendTask into a TaskCommand
JustEmitted ==
    /\ dLast.op = "onClientData"
    /\ dLast.arg.json = "object" /\ dLast.arg.type = "sendTask" /\ dLast.arg.hasData
    /\ dUp # <<>>

\* C17 as stated: the sendTask message of the enhanced CLI carries the --cwd
\* value whenever the option is given and the CLI's current directory
\* otherwise; the TaskCommand's workingDirectory equals the cwd of the sendTask
\* message, and is missing when the message has no cwd.
C17_CwdUnchanged ==
    /\ JustWritten =>
          cliOut[Len(cliOut)].cwd =
              (IF cliLast.cwd # Undefined THEN cliLast.cwd ELSE ProcessCwd)
    /\ JustEmitted => dUp[1].workingDirectory = dLast.arg.cwd

\* C17, amended: the sendTask message carries the --cwd value when the option
\* is given with a non-empty value and the CLI's current directory otherwise;
\* the TaskCommand's workingDirectory equals the cwd of the sendTask message
\* when that is non-empty and is missing when the message has no cwd or an
\* empty one; from the CLI to the upstream the directory arrives unchanged.
C17_NonEmptyCwdUnchanged ==
    /\ JustWritten =>
          cliOut[Len(cliOut)].cwd =
              (IF cliLast.cwd \notin {Undefined, ""} THEN cliLast.cwd ELSE ProcessCwd)
    /\ JustEmitted =>
          /\ Len(dUp) = 1
          /\ dUp[1].workingDirectory =
                (IF dLast.arg.cwd \notin {Absent, ""} THEN dLast.arg.cwd ELSE Absent)
          /\ dUp[1].text = dLast.arg.text
    /\ (JustEmitted /\ cliLast.op = "startTask") =>
          dUp[1].workingDirectory =
              (IF cliLast.cwd \notin {Undefined, ""} THEN cliLast.cwd ELSE ProcessCwd)
    /\ (JustEmitted /\ cliLast.op = "sendTask") => dUp[1].workingDirectory = Absent

C17_Witness ==
    /\ JustEmitted
    /\ cliLast = [op |-> "startTask", cwd |-> "/w"]
    /\ dUp[1].workingDirectory = "/w"
    /\ dUp[1].clientId = "d1"

\* ---------------------------------------------------------------------------
\* parseOptionsAndArgs (roo-cli-enhanced.js)
\* ---------------------------------------------------------------------------

\* The longest command line examined
MaxArgs == 4

Flags == {"--port", "--host", "--cwd"}
Words == {"a", "80"}
Tokens == Flags \cup Words

\* parseInt(string): the number a decimal literal denotes, NaN for a word
\* without leading digits and for undefined
parseInt(tok) == IF tok = "80" THEN Num(80) ELSE NaN

\* args[i], undefined past the end
ArgAt(args, i) == IF i \in 1..Len(args) THEN args[i] ELSE Undefined

\* The body of the loop, without the ++i of the three option cases: the value
\* is looked at but not consumed
parseStepNoSkip(st, args) ==
    LET tok == args[st.i]
        val == ArgAt(args, st.i + 1)
    IN  CASE tok = "--port" -> [st EXCEPT !.i = @ + 1, !.options.port = parseInt(val)]
          [] tok = "--host" -> [st EXCEPT !.i = @ + 1, !.options.host = val]
          [] tok = "--cwd"  -> [st EXCEPT !.i = @ + 1, !.options.cwd = val]
          [] OTHER -> [st EXCEPT !.i = @ + 1, !.remainingArgs = Append(@, tok)]

\* One iteration of the loop of parseOptionsAndArgs, the i++ included
parseStep(st, args) ==
    LET tok == args[st.i]
        val == ArgAt(args, st.i + 1)
    IN  CASE tok = "--port" -> [st EXCEPT !.i = @ + 2, !.options.port = parseInt(val)]
          [] tok = "--host" -> [st EXCEPT !.i = @ + 2, !.options.host = val]
          [] tok = "--cwd"  -> [st EXCEPT !.i = @ + 2, !.options.cwd = val]
          [] OTHER -> [st EXCEPT !.i = @ + 1, !.remainingArgs = Append(@, tok)]

RECURSIVE parseLoop(_, _)
parseLoop(st, args) ==
    IF st.i > Len(args) THEN st ELSE parseLoop(parseStep(st, args), args)

\* parseOptionsAndArgs(args)
parseOptionsAndArgs(args) ==
    LET st == parseLoop([i |-> 1, options |-> NoOptions, remainingArgs |-> <<>>], args)
    IN  [done |-> TRUE, options |-> st.options, remainingArgs |-> st.remainingArgs]

\* main: const { options, remainingArgs } = parseOptionsAndArgs(args.slice(1))
main_parse ==
    /\ ~parsed.done
    /\ parsed' = parseOptionsAndArgs(argv)
    /\ UNCHANGED <<argv, mainVars, sessVars, wireVars, startVars, blessedVars, srvVars, daemonVars, linkVars,
                   procVars, cliVars>>

\* the process ends; the next invocation has not parsed anything yet
main_exit ==
    /\ parsed.done
    /\ parsed' = NotParsed
    /\ UNCHANGED <<argv, mainVars, sessVars, wireVars, startVars, blessedVars, srvVars, daemonVars, linkVars,
                   procVars, cliVars>>

ArgLists == UNION {[1..n -> Tokens] : n \in 0..MaxArgs}

ArgStartInit ==
    /\ SrvInit /\ DaemonInit /\ LinkInit /\ ProcInit /\ CliInit
    /\ argv \in ArgLists
    /\ parsed = NotParsed
    /\ ArgInit!3 /\ ArgInit!4 /\ ArgInit!5 /\ ArgInit!6
    /\ ArgInit!7 /\ ArgInit!8 /\ ArgInit!9 /\ ArgInit!10
    /\ ArgInit!11 /\ ArgInit!12 /\ ArgInit!13

ArgNext == main_parse \/ main_exit

SpecArgs == ArgStartInit /\ [][ArgNext]_vars

\* --- C18 ---
\* argv[i] follows an option flag
AfterFlag(i) == i > 1 /\ argv[i - 1] \in Flags
\* the arguments that are neither an option flag nor the value after one
OtherArgs ==
    LET keep == {i \in 1..Len(argv) : argv[i] \notin Flags /\ ~AfterFlag(i)}
        RECURSIVE pick(_)
        pick(i) == IF i > Len(argv) THEN <<>>
                   ELSE IF i \in keep THEN <<argv[i]>> \o pick(i + 1) ELSE pick(i + 1)
    IN  pick(1)

\* options holds, for every occurrence of a flag that has an argument after
\* it, that argument (as a number for --port)
HoldsEachValue ==
    \A i \in 1..(Len(argv) - 1) :
        /\ argv[i] = "--port" =>
              /\ parsed.options.port.set
              /\ ~parsed.options.port.nan
              /\ argv[i + 1] = "80" => parsed.options.port.n = 80
        /\ argv[i] = "--host" => parsed.options.host = argv[i + 1]
        /\ argv[i] = "--cwd" => parsed.options.cwd = argv[i + 1]

\* C18 as stated: for every argument list, options holds the value that
\* follows each of --port (as an integer), --host and --cwd, and remainingArgs
\* is the list of all other arguments in their original order.
C18_ParsesEveryList ==
    parsed.done => (HoldsEachValue /\ parsed.remainingArgs = OtherArgs)

\* every flag occurs at most once and is followed by a value that is not a
\* flag, a decimal number in the case of --port
WellFormed ==
    /\ \A i \in 1..Len(argv) :
          argv[i] \in Flags =>
              /\ i < Len(argv) /\ argv[i + 1] \notin Flags
              /\ argv[i] = "--port" => argv[i + 1] = "80"
    /\ \A i, j \in 1..Len(argv) : (argv[i] \in Flags /\ argv[i] = argv[j]) => i = j

NoFlagValue(f) ==
    (\A i \in 1..Len(argv) : argv[i] # f) =>
        CASE f = "--port" -> parsed.options.port = Unset
          [] f = "--host" -> parsed.options.host = Absent
          [] OTHER -> parsed.options.cwd = Absent

\* C18, amended: for every argument list in which each of --port, --host and
\* --cwd occurs at most once and is followed by a value that is not one of
\* these flags (a decimal number for --port), options holds the value that
\* follows each flag (as an integer for --port) and nothing for a flag that
\* does not occur, and remainingArgs is the list of all other arguments in
\* their original order; for every argument list whatsoever remainingArgs
\* holds no flag and only arguments of the list.
C18_ParsesWellFormedLists ==
    parsed.done =>
        /\ WellFormed =>
              /\ HoldsEachValue
              /\ parsed.remainingArgs = OtherArgs
              /\ \A f \in Flags : NoFlagValue(f)
        /\ \A k \in 1..Len(parsed.remainingArgs) :
              /\ parsed.remainingArgs[k] \notin Flags
              /\ \E i \in 1..Len(argv) : argv[i] = parsed.remainingArgs[k]
        /\ Len(parsed.remainingArgs) <= Len(argv)

C18_Witness ==
    /\ parsed.done
    /\ argv = <<"a", "--port", "80", "a">>
    /\ parsed.options.port = Num(80)
    /\ parsed.remainingArgs = <<"a", "a">>

\* --- C19 ---
\* C19: no single inbound message, downstream or upstream and whatever its
\* shape, ends the daemon's relay: after the handler of any message the
\* process is still running and goes on handling messages.
C19_NoMessageEndsRelay ==
    dLast.op \in {"onIPCMessage", "onClientData"} => alive

\* the downstream half: the try/catch of the data handler confines every failure
DownstreamFailureConfined == dLast.op = "onClientData" => alive

\* ---------------------------------------------------------------------------
\* RooCLI.connectToDaemon: the reconnection loop of roo-cli
\* ---------------------------------------------------------------------------

RetryFrame == UNCHANGED <<srvVars, daemonVars, linkVars, procVars, argVars>>

\* What a daemon may write to a connected CLI
DaemonFeed ==
    {[type |-> "status", data |-> [connected |-> b, message |-> "m"]] : b \in BOOLEAN}
    \cup {[type |-> "welcome",
           data |-> [connected |-> TRUE, clientId |-> id, currentTask |-> Null,
                     messageHistory |-> <<>>]] : id \in {Null, "d1"}}

\* socket 'connect': the daemon has accepted the connection
R_connect ==
    /\ cliPhase = "connecting" /\ daemonUp
    /\ cliConn' = TRUE
    /\ cliPhase' = "connected"
    /\ UNCHANGED <<cliKind, rooConnected, cliInbox, cliSock, daemonUp, cliOut, cliLast,
                   cliAttempts>>

\* socket 'error' (the connection is refused): the handler only logs
R_error ==
    /\ cliPhase = "connecting" /\ ~daemonUp
    /\ cliPhase' = "errored"
    /\ UNCHANGED <<cliKind, cliConn, rooConnected, cliInbox, cliSock, daemonUp, cliOut,
                   cliLast, cliAttempts>>

\* socket 'close', after an error or when an established connection ends
R_close ==
    /\ cliPhase \in {"errored", "connected"}
    /\ cliOnClose

\* the daemon writes to the connected CLI
R_feed(message) ==
    /\ cliPhase = "connected" /\ daemonUp /\ cliInbox = <<>>
    /\ cliInbox' = <<message>>
    /\ UNCHANGED <<cliKind, cliConn, rooConnected, cliSock, cliPhase, daemonUp, cliOut,
                   cliLast, cliAttempts>>

\* the daemon reads what the CLI wrote
R_read ==
    /\ cliPhase = "connected" /\ daemonUp /\ cliOut # <<>>
    /\ cliOut' = Tail(cliOut)
    /\ UNCHANGED <<cliKind, cliConn, rooConnected, cliInbox, cliSock, cliPhase, daemonUp,
                   cliLast, cliAttempts>>

\* the daemon stops or starts
DaemonToggle ==
    /\ daemonUp' = ~daemonUp
    /\ UNCHANGED <<cliKind, cliConn, rooConnected, cliInbox, cliSock, cliPhase, cliOut,
                   cliLast, cliAttempts>>

RetryNext ==
    \/ R_connect /\ RetryFrame
    \/ R_error /\ RetryFrame
    \/ R_close /\ RetryFrame
    \/ C_timer
    \/ C_data
    \/ \E message \in DaemonFeed : R_feed(message) /\ RetryFrame
    \/ C_sendTask
    \/ R_read /\ RetryFrame
    \/ DaemonToggle /\ RetryFrame

RetryInit ==
    /\ SrvInit /\ DaemonInit /\ LinkInit /\ ProcInit /\ ArgInit
    /\ cliKind = "roo-cli"
    /\ cliConn = FALSE
    /\ rooConnected = FALSE
    /\ cliInbox = <<>>
    /\ cliSock = 0
    /\ cliPhase = "connecting"
    /\ daemonUp \in BOOLEAN
    /\ cliOut = <<>>
    /\ cliLast = [op |-> "none", cwd |-> Undefined]
    /\ cliAttempts = 0

\* A connection attempt ends in 'connect' or in 'error' followed by 'close',
\* and an armed timer fires
RetryFairness ==
    /\ WF_vars(R_connect /\ RetryFrame)
    /\ WF_vars(R_error /\ RetryFrame)
    /\ WF_vars(cliPhase = "errored" /\ R_close /\ RetryFrame)
    /\ WF_vars(C_timer)

SpecCliRetry == RetryInit /\ [][RetryNext]_vars /\ RetryFairness

\* --- C20 ---
\* C20: after roo-cli's connection to the daemon closes or fails the CLI is
\* not connected and a reconnection timer is armed; every failed or closed
\* connection leads to a new attempt, however many have failed before; and if
\* the daemon is reachable from some point on, the CLI is connected again.
C20_KeepsRetrying ==
    /\ [](cliPhase = "waiting" => ~cliConn /\ ~rooConnected)
    /\ [](cliPhase # "idle")
    /\ (cliPhase \in {"errored", "waiting"}) ~> (cliPhase = "connecting")
    /\ (<>[]daemonUp) => ([]<>cliConn)

C20_Witness ==
    /\ cliConn /\ cliPhase = "connected"
    /\ cliAttempts = MaxAttempts
    /\ rooConnected

\* --- C21 ---
\* the last handler run read a ping from a downstream client
LastPing ==
    /\ dLast.op = "onClientData"
    /\ dLast.arg.json = "object" /\ dLast.arg.type = "ping"

PongMessage == [type |-> "pong", data |-> [timestamp |-> now]]

\* what a ping's handler run wrote: one pong, to the sender only
OnePongToSender ==
    /\ dTried[dLast.socket] = 1
    /\ cliStatus[dLast.socket] = "open" => dSent[dLast.socket] = <<PongMessage>>
    /\ \A s \in Sockets \ {dLast.socket} : dSent[s] = <<>> /\ dTried[s] = 0
    /\ dBcast = <<>>
    /\ dUp = <<>>
    /\ clients = dBefore
    /\ alive

\* the step that handles a ping leaves the daemon's fields as they were
PingStep ==
    /\ dLast'.op = "onClientData"
    /\ dLast'.arg.json = "object" /\ dLast'.arg.type = "ping"

PingKeepsState ==
    PingStep => UNCHANGED <<alive, connected, clientId, currentTask, clients,
                            messageHistory, messageCache, cacheFill, cliStatus>>

\* C21: a ping from a downstream client is answered with exactly one pong,
\* written to the socket the ping came from and to no other socket, and the
\* handler changes none of the daemon's fields.
C21_PingPong == [](LastPing => OnePongToSender) /\ [][PingKeepsState]_vars

C21_Witness ==
    /\ LastPing
    /\ clients = Sockets
    /\ \A s \in Sockets : cliStatus[s] = "open"
    /\ dSent[dLast.socket] = <<PongMessage>>
    /\ connected /\ messageHistory # <<>>

\* ---------------------------------------------------------------------------
\* RooSessionManager and main (roo-cli-enhanced.js)
\* ---------------------------------------------------------------------------

\* 24 * 60 * 60 * 1000
DefaultMaxAge == 86400000

TaskIds == {"a", "b"}
SessionStatuses == {"active", "running", "completed", "aborted"}

\* new RooSession(taskId, prompt): active, last active now
RooSession(t) == [status |-> "active", lastActivity |-> t]

\* Map.set / Map.delete on the sessions
SessionsSet(sess, id, v) == [t \in DOMAIN sess \cup {id} |-> IF t = id THEN v ELSE sess[t]]
SessionsOnly(sess, ids) == [t \in ids |-> sess[t]]

\* cleanupOldSessions comparing with >= instead of >
cleanupOldSessionsAtAge(sess, t, maxAge) ==
    SessionsOnly(sess, {id \in DOMAIN sess :
        ~(sess[id].status = "completed" /\ (t - sess[id].lastActivity) >= maxAge)})

\* RooSessionManager.cleanupOldSessions(maxAge) at time t
cleanupOldSessions(sess, t, maxAge) ==
    SessionsOnly(sess, {id \in DOMAIN sess :
        ~(sess[id].status = "completed" /\ (t - sess[id].lastActivity) > maxAge)})

\* The candidates of main's command word and of the rest of the command line
MainCommands == {Undefined, "help", "start", "ls", "attach", "interactive", "bogus"}
MainArgs == {<<>>, <<"a">>, <<"--cwd", "a">>}

MainFrame ==
    UNCHANGED <<srvVars, daemonVars, linkVars, procVars, wireVars, startVars, blessedVars>>
CliRest == <<cliKind, cliInbox, cliSock, cliPhase, daemonUp, cliOut, cliLast, cliAttempts>>

\* an exit that reports success whatever happened
ExitZero(code, why) ==
    /\ mainPc' = "ended"
    /\ exitCode' = 0
    /\ mainWhy' = why

\* process.exit(code), or the end of a process with nothing left to wait for
Exit(code, why) ==
    /\ mainPc' = "ended"
    /\ exitCode' = code
    /\ mainWhy' = why

\* main up to `new RooCLIEnhanced(options)`: help, or parse the options and
\* construct the CLI, whose session manager cleans up on startup
M_begin ==
    /\ mainPc = "start"
    /\ IF mainCommand \in {Undefined, "help"}
       THEN /\ Exit(0, "none")
            /\ UNCHANGED <<parsed, sessVars>>
       ELSE /\ parsed' = parseOptionsAndArgs(argv)
            /\ mainPc' = "connecting"
            /\ sessions' = cleanupOldSessions(sessions, dateNow, DefaultMaxAge)
            /\ sessBefore' = sessions
            /\ sessLast' = [op |-> "cleanup", maxAge |-> DefaultMaxAge]
            /\ UNCHANGED <<exitCode, mainWhy, dateNow>>
    /\ UNCHANGED <<argv, mainCommand, cliConn, rooConnected, CliRest>>
    /\ MainFrame

\* await cli.connectToDaemon(): 'connect' resolves
M_connected ==
    /\ mainPc = "connecting" /\ daemonUp
    /\ cliConn' = TRUE
    /\ mainPc' = "waiting"
    /\ UNCHANGED <<argv, parsed, mainCommand, exitCode, mainWhy, sessVars, rooConnected, CliRest>>
    /\ MainFrame

\* await cli.connectToDaemon(): 'error' rejects, the catch block exits
M_refused ==
    /\ mainPc = "connecting" /\ ~daemonUp
    /\ Exit(1, "connection")
    /\ UNCHANGED <<argv, parsed, mainCommand, sessVars, cliConn, rooConnected, CliRest>>
    /\ MainFrame

\* a message of the daemon arrives during the 500 ms wait
M_message(message) ==
    /\ mainPc = "waiting" /\ cliConn
    /\ rooConnected' = RooCLIEnhanced_processDaemonMessage(rooConnected, message)
    /\ UNCHANGED <<argv, parsed, mainVars, sessVars, cliConn, CliRest>>
    /\ MainFrame

\* the connection closes during the 500 ms wait
M_lost ==
    /\ mainPc = "waiting" /\ cliConn
    /\ cliConn' = FALSE
    /\ rooConnected' = FALSE
    /\ UNCHANGED <<argv, parsed, mainVars, sessVars, CliRest>>
    /\ MainFrame

\* the switch of main; an exception of a command reaches the catch block
M_dispatch ==
    /\ mainPc = "waiting"
    /\ CASE mainCommand = "start" ->
              IF parsed.remainingArgs = <<>>
              THEN Exit(1, "usage") /\ UNCHANGED sessVars
              ELSE IF ~cliConn THEN Exit(1, "connection") /\ UNCHANGED sessVars
              ELSE IF ~rooConnected THEN Exit(1, "command") /\ UNCHANGED sessVars
              ELSE /\ mainPc' = "interactive"
                   /\ sessions' = SessionsSet(sessions, "b", RooSession(dateNow))
                   /\ sessBefore' = sessions
                   /\ sessLast' = [op |-> "createSession", maxAge |-> 0]
                   /\ UNCHANGED <<exitCode, mainWhy, dateNow>>
         [] mainCommand = "ls" ->
              mainPc' = "idle" /\ UNCHANGED <<exitCode, mainWhy, sessVars>>
         [] mainCommand = "attach" ->
              IF parsed.remainingArgs = <<>>
              THEN Exit(1, "usage") /\ UNCHANGED sessVars
              ELSE IF parsed.remainingArgs[1] \notin DOMAIN sessions
              THEN Exit(1, "command") /\ UNCHANGED sessVars
              ELSE mainPc' = "interactive" /\ UNCHANGED <<exitCode, mainWhy, sessVars>>
         [] mainCommand = "interactive" ->
              mainPc' = "interactive" /\ UNCHANGED <<exitCode, mainWhy, sessVars>>
         [] OTHER -> Exit(1, "usage") /\ UNCHANGED sessVars
    /\ UNCHANGED <<argv, parsed, mainCommand, cliConn, rooConnected, CliRest>>
    /\ MainFrame

\* Ctrl+C in interactive mode: shutdown exits with 0
M_sigint ==
    /\ mainPc = "interactive"
    /\ Exit(0, "signal")
    /\ UNCHANGED <<argv, parsed, mainCommand, sessVars, cliConn, rooConnected, CliRest>>
    /\ MainFrame

MainFeed ==
    {[type |-> "welcome",
      data |-> [connected |-> TRUE, clientId |-> id, currentTask |-> Null,
                messageHistory |-> <<>>]] : id \in {Null, "d1"}}

MainNext ==
    \/ M_begin
    \/ M_connected
    \/ M_refused
    \/ \E message \in MainFeed : M_message(message)
    \/ M_lost
    \/ M_dispatch
    \/ M_sigint

MainInit ==
    /\ SrvInit /\ DaemonInit /\ LinkInit /\ ProcInit
    /\ cliKind = "enhanced" /\ cliConn = FALSE /\ rooConnected = FALSE
    /\ cliInbox = <<>> /\ cliSock = 0 /\ cliPhase = "connecting"
    /\ daemonUp \in BOOLEAN
    /\ cliOut = <<>> /\ cliLast = [op |-> "none", cwd |-> Undefined] /\ cliAttempts = 0
    /\ argv \in MainArgs
    /\ parsed = NotParsed
    /\ mainCommand \in MainCommands
    /\ mainPc = "start" /\ exitCode = -1 /\ mainWhy = "none"
    /\ sessions \in {NoSessions, [t \in {"a"} |-> RooSession(0)]}
    /\ sessBefore = NoSessions
    /\ sessLast = [op |-> "none", maxAge |-> 0]
    /\ dateNow = 1
    /\ ArgInit!11 /\ ArgInit!12 /\ ArgInit!13

SpecMain == MainInit /\ [][MainNext]_vars

\* --- C22 ---
UsageError ==
    \/ mainCommand = "start" /\ parsed.remainingArgs = <<>>
    \/ mainCommand = "attach" /\ parsed.remainingArgs = <<>>
    \/ mainCommand \notin {Undefined, "help", "start", "ls", "attach", "interactive"}

\* an exit with 1 happens on usage and connection errors
ExitOneOnErrors ==
    /\ (parsed.done /\ UsageError) => mainPc \notin {"interactive", "idle"}
    /\ (parsed.done /\ UsageError /\ mainPc = "ended") => exitCode = 1
    /\ (mainPc = "ended" /\ mainWhy = "connection") => exitCode = 1

\* C22 as stated: the enhanced CLI ends with exit code 1 on every usage error
\* and on a connection error to the daemon, and with exit code 1 in no other
\* case.
C22_ExitOneOnlyOnUsageOrConnection ==
    /\ ExitOneOnErrors
    /\ exitCode = 1 => (UsageError \/ mainWhy = "connection")

\* C22, amended: the enhanced CLI ends with exit code 1 on every usage error,
\* on a connection error to the daemon, and when the command itself throws
\* (start while the daemon is not connected to Roo, attach to a task id that
\* has no stored session); it ends with exit code 1 in no other case.
C22_ExitOneOnEveryFailure ==
    /\ ExitOneOnErrors
    /\ exitCode = 1 => (UsageError \/ mainWhy \in {"connection", "command"})
    /\ (mainPc = "ended" /\ mainWhy = "command") =>
          /\ exitCode = 1
          /\ \/ mainCommand = "start" /\ ~rooConnected
             \/ mainCommand = "attach" /\ parsed.remainingArgs[1] \notin DOMAIN sessions
    /\ (mainPc = "ended" /\ mainWhy \in {"none", "signal"}) => exitCode = 0

C22_Witness ==
    /\ mainPc = "ended" /\ exitCode = 1
    /\ mainCommand = "start" /\ argv = <<"--cwd", "a">>
    /\ mainWhy = "usage" /\ cliConn

\* ---- the session manager on its own ----
SessFrame ==
    UNCHANGED <<argv, parsed, mainVars, wireVars, startVars, blessedVars, srvVars, daemonVars, linkVars,
                procVars, cliVars>>

\* lastActivity of the stored sessions: more than maxAge ago, exactly maxAge
\* ago, and one millisecond ago, seen from the first Date.now()
ActivityTimes == {0, 1, DefaultMaxAge}
MaxAges == {DefaultMaxAge, 1}

\* cleanupOldSessions(maxAge), saveSessions included
S_cleanup(maxAge) ==
    /\ sessions' = cleanupOldSessions(sessions, dateNow, maxAge)
    /\ sessBefore' = sessions
    /\ sessLast' = [op |-> "cleanup", maxAge |-> maxAge]
    /\ UNCHANGED dateNow

\* updateSession(taskId, {status, lastActivity: Date.now()})
S_updateSession(id, status) ==
    /\ id \in DOMAIN sessions
    /\ sessions[id].status # status
    /\ sessions' = SessionsSet(sessions, id, [status |-> status, lastActivity |-> dateNow])
    /\ sessBefore' = sessions
    /\ sessLast' = [op |-> "updateSession", maxAge |-> 0]
    /\ UNCHANGED dateNow

\* a millisecond passes
S_tick ==
    /\ dateNow < DefaultMaxAge + NTicks
    /\ dateNow' = dateNow + 1
    /\ sessLast' = [op |-> "tick", maxAge |-> 0]
    /\ UNCHANGED <<sessions, sessBefore>>

SessNext ==
    \/ \E maxAge \in MaxAges : S_cleanup(maxAge) /\ SessFrame
    \/ \E id \in TaskIds, status \in SessionStatuses : S_updateSession(id, status) /\ SessFrame
    \/ S_tick /\ SessFrame

SessInit ==
    /\ SrvInit /\ DaemonInit /\ LinkInit /\ ProcInit /\ CliInit
    /\ argv = <<>> /\ parsed = NotParsed
    /\ ArgInit!3 /\ ArgInit!4 /\ ArgInit!5 /\ ArgInit!6
    /\ \E ids \in SUBSET TaskIds :
          sessions \in [ids -> [status : SessionStatuses, lastActivity : ActivityTimes]]
    /\ sessBefore = NoSessions
    /\ sessLast = [op |-> "none", maxAge |-> 0]
    /\ dateNow = DefaultMaxAge + 1
    /\ ArgInit!11 /\ ArgInit!12 /\ ArgInit!13

SpecSessions == SessInit /\ [][SessNext]_vars

\* --- C23 ---
\* a session cleanupOldSessions has to remove
OldCompleted(sess, id, maxAge) ==
    /\ sess[id].status = "completed"
    /\ dateNow - sess[id].lastActivity > maxAge

\* C23: cleanupOldSessions removes exactly the sessions whose status is
\* completed and whose last activity lies more than maxAge in the past; every
\* other session is retained unchanged.
C23_CleanupRemovesOldCompleted ==
    sessLast.op = "cleanup" =>
        /\ DOMAIN sessions =
              {id \in DOMAIN sessBefore : ~OldCompleted(sessBefore, id, sessLast.maxAge)}
        /\ \A id \in DOMAIN sessions : sessions[id] = sessBefore[id]

C23_Witness ==
    /\ sessLast = [op |-> "cleanup", maxAge |-> DefaultMaxAge]
    /\ DOMAIN sessBefore = TaskIds
    /\ DOMAIN sessions = {"b"}
    /\ sessions["b"].status = "completed"
    /\ dateNow - sessions["b"].lastActivity = DefaultMaxAge

\* C24: onMessage emits a TaskCommand event for a valid client-origin
\* TaskCommand message, exactly one, tagged with the message's clientId and
\* carrying its data, and emits none for any other message or handler; a
\* valid message of origin server changes no registration, sends no Ack and
\* emits no event.
LastValidCommand ==
    /\ LastValidClient
    /\ srvLast.data.type = "TaskCommand"

LastValidServer ==
    /\ srvLast.op = "message"
    /\ TypeofObject(srvLast.data)
    /\ ipcMessageSchema(srvLast.data)
    /\ srvLast.data.origin = "server"

C24_CommandEventIffClientCommand ==
    /\ LastValidCommand =>
          /\ Cardinality(CommandEvents) = 1
          /\ \A i \in CommandEvents :
                srvEvents[i] = [name |-> "TaskCommand",
                                clientId |-> srvLast.data.clientId,
                                data |-> srvLast.data.data]
    /\ ~LastValidCommand => CommandEvents = {}
    /\ LastValidServer =>
          /\ ipcClients = srvBefore
          /\ srvSent = <<>>
          /\ srvEvents = <<>>

\* A TaskCommand of a client not yet registered has just been handled: the
\* Connect event of the registration and the TaskCommand event were emitted
C24_Witness ==
    /\ LastValidCommand
    /\ ~MapHas(srvBefore, srvLast.data.clientId)
    /\ Cardinality(CommandEvents) = 1
    /\ Cardinality(ConnectEvents) = 1

\* ---- the dedup cache: which timestamp a decision is measured from ----

\* The index of the last emitted decision on `key` among those kept, 0 if none
LastEmitted(key) ==
    LET c == dedupCalls[key]
        E == {i \in 1..Len(c) : c[i].emit}
    IN  IF E = {} THEN 0 ELSE CHOOSE i \in E : \A j \in E : j <= i

\* C25: a suppressed call leaves the recorded timestamp alone. A call of
\* logWithDeduplication on a key is suppressed exactly when at most the
\* cooldown has passed since the last emitted occurrence of the key, however
\* many suppressed calls lie in between, and the timestamp recorded for the
\* key is that of its last emitted occurrence.
C25_MeasuredFromLastEmission ==
    \A key \in DOMAIN dedupCalls :
        LET c == dedupCalls[key]
        IN  /\ \A i \in 1..Len(c) : \A j \in (i + 1)..Len(c) :
                  (/\ c[i].emit
                   /\ \A k \in (i + 1)..(j - 1) : ~c[k].emit
                   /\ c[j].fn = "log")
                  => (c[j].emit <=> c[j].t - c[i].t > cooldownPeriod)
            /\ (LastEmitted(key) # 0 /\ key \in DOMAIN messageCache)
                  => messageCache[key] = c[LastEmitted(key)].t

\* C25 witness: a key emitted, repeated one cooldown later and suppressed,
\* repeated again one cooldown after the suppressed call and emitted
C25_Witness ==
    /\ dLast.op = "logWithDeduplication"
    /\ LET c == dedupCalls[dLast.arg.key]
       IN  /\ Len(c) = 3
           /\ \A i \in 1..3 : c[i].fn = "log"
           /\ c[1].emit /\ ~c[2].emit /\ c[3].emit
           /\ c[2].t - c[1].t <= cooldownPeriod
           /\ c[3].t - c[2].t <= cooldownPeriod
           /\ messageCache[dLast.arg.key] = c[3].t

\* ---- the dedup cache: its size ----

\* The last handler run was a dedup call that recorded its key
LastRecorded ==
    /\ dLast.op \in {"logWithDeduplication", "formatQuestionMessage"}
    /\ dLast.arg.key \in DOMAIN dedupCalls
    /\ LastDecision(dLast.arg.key).emit
    /\ LastDecision(dLast.arg.key).t = now

\* No entry of the cache is older than twice the cooldown
NoOldEntry ==
    /\ cacheFill > 0 => now - 0 <= cooldownPeriod * 2
    /\ \A k \in DOMAIN messageCache : now - messageCache[k] <= cooldownPeriod * 2

SweptOrSmall ==
    \/ Cardinality(DOMAIN messageCache) + cacheFill <= cacheSweepSize
    \/ NoOldEntry

\* C26: after every dedup call that records a key, on the plain, ask or
\* question path, the cache holds at most cacheSweepSize entries or no entry
\* older than twice the cooldown.
C26_SweptAfterEveryRecording ==
    LastRecorded => SweptOrSmall

\* The same for the calls of logWithDeduplication alone (plain and ask path)
PlainPathSwept ==
    (LastRecorded /\ dLast.op = "logWithDeduplication") => SweptOrSmall

\* ======================================================================
\* The byte stream of one downstream connection: the client writes
\* JSON.stringify(message) + '\n' (roo-cli-enhanced.js startTask), TCP delivers
\* the bytes in chunks of any size, and the daemon's data handler runs once
\* per chunk
\* ======================================================================

MaxWritten == 2
WireSocket == 1
WireMessages == {"ping", "sendTask"}

\* The text of a message in two halves, and the newline that ends it
NL == [m |-> "nl", part |-> 0]
WireBytes(m) == <<[m |-> m, part |-> 1], [m |-> m, part |-> 2], NL>>

\* JSON.parse skips white space around the value
RECURSIVE TrimLeft(_)
TrimLeft(b) == IF b # <<>> /\ Head(b) = NL THEN TrimLeft(Tail(b)) ELSE b
RECURSIVE TrimRight(_)
TrimRight(b) ==
    IF b # <<>> /\ b[Len(b)] = NL THEN TrimRight(SubSeq(b, 1, Len(b) - 1)) ELSE b

\* The message a text parses to
WireMessage(m) ==
    IF m = "ping" THEN [ClientBase EXCEPT !.type = "ping"]
    ELSE [ClientBase EXCEPT !.type = "sendTask", !.hasData = TRUE, !.text = "do", !.cwd = "/w"]

\* JSON.parse(data.toString()) of a chunk: the text of exactly one whole
\* message parses; a part of one, or more than one, is a SyntaxError
JsonParseChunk(b) ==
    LET t == TrimRight(TrimLeft(b))
    IN  IF Len(t) = 2 /\ t[1].part = 1 /\ t[2].part = 2 /\ t[1].m = t[2].m
        THEN WireMessage(t[1].m)
        ELSE [ClientBase EXCEPT !.json = "invalid"]

WireFrame == UNCHANGED <<srvVars, linkVars, procVars, cliVars, argv, parsed, mainVars, sessVars,
                         startVars, blessedVars>>

\* socket.write(JSON.stringify(message) + '\n') of the client
W_write(m) ==
    /\ cliStatus[WireSocket] = "open" /\ Len(written) < MaxWritten
    /\ wire' = wire \o WireBytes(m)
    /\ written' = Append(written, m)
    /\ UNCHANGED <<handled, daemonVars>>
    /\ WireFrame

\* The 'data' event on the first n bytes in flight
W_data(n) ==
    /\ alive /\ cliStatus[WireSocket] = "open"
    /\ n \in 1..Len(wire)
    /\ LET message == JsonParseChunk(SubSeq(wire, 1, n))
       IN  /\ Commit(onClientDataResult(Daemon, WireSocket, message),
                     Last("onClientData", WireSocket, message))
           /\ handled' = IF message.json = "invalid" THEN handled
                          ELSE Append(handled, message.type)
    /\ wire' = SubSeq(wire, n + 1, Len(wire))
    /\ UNCHANGED <<now, cliStatus, written>>
    /\ WireFrame

WireNext ==
    \/ onIPCConnect /\ DaemonOnly
    \/ handleClientConnection(WireSocket) /\ DaemonOnly
    \/ \E m \in WireMessages : W_write(m)
    \/ \E n \in 1..(3 * MaxWritten) : W_data(n)

SpecWire == Init /\ [][WireNext]_vars

\* --- C27 ---
RECURSIVE IsSubSeq(_, _)
IsSubSeq(a, b) ==
    IF a = <<>> THEN TRUE
    ELSE IF b = <<>> THEN FALSE
    ELSE IF Head(a) = Head(b) THEN IsSubSeq(Tail(a), Tail(b))
    ELSE IsSubSeq(a, Tail(b))

\* C27: once every byte a client wrote has been delivered, the daemon has
\* handled every message the client wrote, each once and in the order
\* written, however the bytes were split into chunks.
C27_EveryWrittenMessageHandled ==
    wire = <<>> => handled = written

\* What is handled was written, once, and in the order written
HandledInOrder == IsSubSeq(handled, written)

\* ======================================================================
\* The start of the daemon: the constructor runs setupIPC, which connects,
\* arms the poller of watchForSocket, or gives up; SIGINT and SIGTERM run
\* shutdown and exit
\* ======================================================================

\* The interval callback of watchForSocket that leaves the interval armed
watchForSocketTickKeepsPolling(exists) ==
    [watcher |-> "armed", connect |-> exists]

\* The interval callback of watchForSocket: whether connectToIPC is called,
\* and what becomes of the interval
watchForSocketTick(exists) ==
    IF exists THEN [watcher |-> "cleared", connect |-> TRUE]
    ELSE [watcher |-> "armed", connect |-> FALSE]

\* RooDaemon.setupIPC(): whether connectToIPC is called, and the interval
setupIPC(hasPath, exists) ==
    IF ~hasPath THEN [watcher |-> "none", connect |-> FALSE]
    ELSE IF ~exists THEN [watcher |-> "armed", connect |-> FALSE]
    ELSE [watcher |-> "none", connect |-> TRUE]

\* RooDaemon.connectToIPC(), when `call` says it is called
connectToIPC(call) ==
    /\ connectCalls' = IF call THEN connectCalls + 1 ELSE connectCalls
    /\ ipcSocket' = IF call THEN "connecting" ELSE ipcSocket
    /\ ipcAttempts' = IF call /\ ipcAttempts < MaxAttempts THEN ipcAttempts + 1 ELSE ipcAttempts

StartFrame ==
    UNCHANGED <<srvVars, linkVars, cliVars, argv, parsed, mainVars, sessVars, wireVars,
                blessedVars>>

\* new RooDaemon(options): setupIPC, then setupTCPServer
D_construct ==
    /\ daemonPc = "new"
    /\ daemonPc' = "running"
    /\ LET r == setupIPC(socketPath, pathExists)
       IN  /\ socketWatcher' = r.watcher
           /\ connectToIPC(r.connect)
           /\ Commit(Log(Daemon, IF r.connect THEN "info" ELSE "error", "setupIPC"),
                     Last("setupIPC", 0, NoArg))
    /\ tcpServer' = "pending"
    /\ UNCHANGED <<now, cliStatus, upAvailable, socketPath, pathExists>>
    /\ StartFrame

\* The interval of watchForSocket fires
D_watch ==
    /\ daemonPc = "running" /\ socketWatcher = "armed"
    /\ LET r == watchForSocketTick(pathExists)
       IN  /\ socketWatcher' = r.watcher
           /\ connectToIPC(r.connect)
           /\ Commit(IF r.connect THEN Log(Daemon, "success", "IPC socket detected")
                     ELSE Daemon,
                     Last("watchForSocket", 0, NoArg))
    /\ UNCHANGED <<now, cliStatus, tcpServer, upAvailable, socketPath, pathExists, daemonPc>>
    /\ StartFrame

\* SIGINT or SIGTERM: shutdown(), then process.exit(0)
D_shutdown ==
    /\ daemonPc = "running"
    /\ daemonPc' = "exited"
    /\ socketWatcher' = IF socketWatcher = "armed" THEN "cleared" ELSE socketWatcher
    /\ Commit(Throw(Log(Log(Daemon, "warn", "Shutting down daemon"),
                        "success", "Daemon shutdown complete")),
              Last("shutdown", 0, NoArg))
    /\ cliStatus' = [s \in Sockets |-> IF s \in clients THEN "closed" ELSE cliStatus[s]]
    /\ tcpServer' = "closed"
    /\ ipcSocket' = "closed"
    /\ UNCHANGED <<now, upAvailable, ipcAttempts, socketPath, pathExists, connectCalls>>
    /\ StartFrame

\* The socket path is created, or removed
PathToggle ==
    /\ pathExists' = ~pathExists
    /\ UNCHANGED <<srvVars, daemonVars, linkVars, procVars, cliVars, argv, parsed, mainVars,
                   sessVars, wireVars, blessedVars, socketPath, socketWatcher, connectCalls,
                   daemonPc>>

StartNext ==
    \/ D_construct
    \/ D_watch
    \/ D_shutdown
    \/ PathToggle
    \/ listenCallback /\ ProcFrame
    \/ ipcConnect /\ ProcFrame
    \/ ipcError /\ ProcFrame
    \/ ipcClose /\ ProcFrame
    \/ ipcRetry
    \/ EndpointToggle

\* The process before `new RooDaemon(options)`
StartInit ==
    /\ SrvInit /\ DaemonInit /\ LinkInit /\ CliInit
    /\ ArgInit!1 /\ ArgInit!2 /\ ArgInit!3 /\ ArgInit!4 /\ ArgInit!5 /\ ArgInit!6
    /\ ArgInit!7 /\ ArgInit!8 /\ ArgInit!9 /\ ArgInit!10 /\ ArgInit!11 /\ ArgInit!13
    /\ tcpServer = "unset" /\ upAvailable \in BOOLEAN
    /\ ipcSocket = "none" /\ ipcAttempts = 0
    /\ socketPath \in BOOLEAN /\ pathExists \in BOOLEAN
    /\ socketWatcher = "none" /\ connectCalls = 0 /\ daemonPc = "new"

SpecStart == StartInit /\ [][StartNext]_vars

\* --- C28 ---
\* the poller ends only by finding the path, which starts the one connection,
\* or by shutdown
PollerEnds ==
    (socketWatcher = "armed" /\ socketWatcher' # "armed") =>
        \/ pathExists /\ connectCalls' = 1 /\ ipcSocket' = "connecting"
        \/ daemonPc' = "exited" /\ connectCalls' = connectCalls

\* connectToIPC is not called once the process has shut down
NoConnectAfterShutdown ==
    daemonPc = "exited" => connectCalls' = connectCalls /\ socketWatcher' = socketWatcher

\* C28: connectToIPC is called at most once in a run; while the poller is
\* armed no connection has been started, the poller ends only by finding the
\* socket path, which starts the one connection, or by shutdown, and nothing
\* is started after shutdown.
C28_AtMostOneUpstreamLink ==
    /\ [](connectCalls <= 1)
    /\ [](socketWatcher = "armed" => connectCalls = 0 /\ ipcSocket = "none")
    /\ [](connectCalls = 1 => socketWatcher # "armed")
    /\ [][PollerEnds]_vars
    /\ [][NoConnectAfterShutdown]_vars

\* C28 witness: the path was absent at startup, the poller found it later and
\* started the connection, which is open
C28_Witness ==
    /\ socketWatcher = "cleared" /\ daemonPc = "running"
    /\ connectCalls = 1 /\ ipcSocket = "open"

\* --- C29 ---
LastGone == dLast.op \in {"onClientClose", "onClientError"}

\* C29: a downstream socket whose close or error event has been handled is not
\* in the client set and nothing is written to it, by a broadcast or otherwise;
\* the handler removes that socket alone and writes to nobody, and a later
\* broadcast still reaches every other client of the set whose write succeeds.
C29_ClosedSocketLeavesAlone ==
    /\ \A s \in Sockets :
          cliStatus[s] = "closed" => (s \notin clients /\ dSent[s] = <<>> /\ dTried[s] = 0)
    /\ LastGone =>
          /\ clients = dBefore \ {dLast.socket}
          /\ dBcast = <<>>
          /\ \A t \in Sockets : dSent[t] = <<>>
    /\ dBcast # <<>> =>
          \A t \in dBefore : cliStatus[t] = "open" => (dSent[t] = dBcast /\ t \in clients)

\* C29 witness: one socket has been closed, and a broadcast made afterwards
\* reached the other client and not the closed socket
C29_Witness ==
    \E s, t \in Sockets :
        /\ cliStatus[s] = "closed" /\ cliFirst[s] = "welcome"
        /\ dBcast # <<>>
        /\ t \in clients /\ dSent[t] = dBcast
        /\ dSent[s] = <<>>

\* --- C30 ---
CopiesTo(s) == Cardinality({i \in 1..Len(srvSent) : srvSent[i].to = s})

\* C30: IpcServer.broadcast writes one copy of the envelope to every socket
\* bound to a registry entry and nothing to any other socket; a socket that
\* is connected and has no registry entry yet receives none.
C30_BroadcastToRegisteredOnly ==
    srvLast.op = "broadcast" =>
        \A s \in Sockets :
            CopiesTo(s) = IF s \in MapSockets(ipcClients) THEN 1 ELSE 0

\* What broadcast does: one copy to every connected socket, registered or not
BroadcastToConnected ==
    srvLast.op = "broadcast" =>
        \A s \in Sockets : CopiesTo(s) = IF sockStatus[s] = "open" THEN 1 ELSE 0

\* --- C31 ---
\* C31: a TaskCommand event tagged with clientId c is emitted only for a
\* message that arrived on the socket the registry binds to c; a second
\* connection using a registered clientId has no command attributed to it.
C31_CommandFromBoundSocket ==
    (srvLast.op = "message" /\ CommandEvents # {}) =>
        \A i \in CommandEvents :
            MapGet(ipcClients, srvEvents[i].clientId) = srvLast.socket

\* What holds: the event carries the clientId the message names, whichever
\* socket brought it
CommandTaggedAsClaimed ==
    (srvLast.op = "message" /\ CommandEvents # {}) =>
        \A i \in CommandEvents : srvEvents[i].clientId = srvLast.data.clientId

\* --- C32 ---
\* C32: for every clientId c, c is in the registry exactly when one more
\* Connect(c) than Disconnect(c) has been emitted, and otherwise as many of
\* the one as of the other; the disconnect of a socket that never identified
\* itself emits nothing.
C32_RegistryMatchesEvents ==
    /\ \A c \in ClientIds :
          srvCounts[c].connect =
              srvCounts[c].disconnect + (IF MapHas(ipcClients, c) THEN 1 ELSE 0)
    /\ (srvLast.op = "disconnect" /\ srvLast.socket \notin MapSockets(srvBefore))
          => srvEvents = <<>>

\* The same for the clientIds that are not the empty string
NamedRegistryMatchesEvents ==
    /\ \A c \in ClientIds \ {""} :
          srvCounts[c].connect =
              srvCounts[c].disconnect + (IF MapHas(ipcClients, c) THEN 1 ELSE 0)
    /\ (srvLast.op = "disconnect" /\ srvLast.socket \notin MapSockets(srvBefore))
          => srvEvents = <<>>

\* ======================================================================
\* The daemon's upstream identity: Acks of several clientIds, disconnects
\* and reconnects of the link, and sendTask requests in between
\* ======================================================================

AckInputs == {UpAck("Ack", "d1"), UpAck("Ack", "d2"), UpAck("ack", Absent)}

AckNext ==
    \/ onIPCConnect /\ DaemonOnly
    \/ onIPCDisconnect /\ DaemonOnly
    \/ \E data \in AckInputs :
          Len(messageHistory) < MaxEvents /\ onIPCMessage(data) /\ DaemonOnly
    \/ \E s \in Sockets : handleClientConnection(s) /\ DaemonOnly
    \/ \E s \in Sockets, chunk \in BridgeChunks : onClientData(s, chunk) /\ DaemonOnly

SpecAck == Init /\ [][AckNext]_vars

\* --- C33 ---
\* data.data?.clientId || data.clientId of an Ack
AckIdOf(a) == IF Truthy(a.dataId) THEN a.dataId
              ELSE IF a.topId = Absent THEN Undefined ELSE a.topId

\* clientId is the id of the most recent Ack of the current connection: an Ack
\* sets it to its id, a disconnect to null, and nothing else changes it
IdFollowsAcks ==
    IF dLast'.op = "onIPCMessage" /\ dLast'.arg.type \in {"ack", "Ack"}
    THEN clientId' = AckIdOf(dLast'.arg)
    ELSE IF dLast'.op = "onIPCDisconnect"
         THEN clientId' = Null
         ELSE clientId' = clientId

\* C33: a non-null clientId implies connected; a TaskCommand is emitted
\* upstream only while connected, and it carries the clientId of the most
\* recent Ack of the current connection.
C33_IdOnlyWhileConnected ==
    /\ [](clientId # Null => connected)
    /\ [](dUp # <<>> =>
            /\ connected /\ Truthy(clientId)
            /\ \A i \in 1..Len(dUp) : dUp[i].clientId = clientId)
    /\ [][IdFollowsAcks]_vars

\* C33 witness: after the Acks of d1 and of d2 a command has been emitted, and
\* it carries d2
C33_Witness ==
    /\ Len(messageHistory) = 2
    /\ messageHistory[1].dataId = "d1" /\ messageHistory[2].dataId = "d2"
    /\ Len(dUp) = 1 /\ dUp[1].clientId = "d2"

\* ======================================================================
\* RooBlessedClient (roo-blessed/index.js) on its node-ipc link to IpcServer
\* ======================================================================

MaxConnects == 3

\* ipc.config.id of the client
BlessedId == "b1"

\* The client's fields together with what the running handler has emitted
Blessed ==
    [connected |-> bConnected, isReady |-> bReady, clientId |-> bClientId,
     readOnly |-> bReadOnly, currentTask |-> bTask, sent |-> <<>>]

UserCommand(id, text) ==
    [type |-> "TaskCommand", origin |-> "client", clientId |-> id, text |-> text]

\* What IpcServer writes to a client: the Ack of its registration, the
\* TaskEvents it broadcasts, and envelopes of another type
BlessedAck(id) == [NoEnvelope EXCEPT !.type = "Ack", !.clientId = id]
BlessedEvent(name, a) == [NoEnvelope EXCEPT !.type = "TaskEvent", !.eventName = name, !.arg = a]
BlessedInputs ==
    {BlessedAck(BlessedId), BlessedEvent("taskStarted", "t1"),
     BlessedEvent("taskCompleted", "t1"), BlessedEvent("message", "text"),
     [NoEnvelope EXCEPT !.type = "TaskCommand"]}

\* onConnect leaving the input box as it is
Blessed_onConnectEditable(b) ==
    [b EXCEPT !.connected = TRUE,
              !.sent = Append(@, UserCommand(BlessedId, "init"))]

\* RooBlessedClient.onConnect()
Blessed_onConnect(b) ==
    [b EXCEPT !.connected = TRUE, !.readOnly = TRUE,
              !.sent = Append(@, UserCommand(BlessedId, "init"))]

\* RooBlessedClient.onDisconnect()
Blessed_onDisconnect(b) == [b EXCEPT !.connected = FALSE, !.clientId = Null]

\* RooBlessedClient.handleTaskEvent(event)
Blessed_handleTaskEvent(b, ev) ==
    CASE ev.eventName = "taskStarted" -> [b EXCEPT !.currentTask = ev.arg]
      [] ev.eventName \in {"taskCompleted", "taskAborted"} -> [b EXCEPT !.currentTask = Null]
      [] OTHER -> b

\* RooBlessedClient.onMessage(data)
Blessed_onMessage(b, data) ==
    IF data.type \in {"ack", "Ack"}
    THEN [b EXCEPT !.clientId = data.clientId, !.isReady = TRUE, !.readOnly = FALSE]
    ELSE IF data.type = "TaskEvent" THEN Blessed_handleTaskEvent(b, data)
    ELSE b

\* RooBlessedClient.sendMessage() with `text` in the input box
Blessed_sendMessage(b, text) ==
    IF b.readOnly THEN b
    ELSE IF text = "" THEN b
    ELSE IF ~b.connected THEN b
    ELSE IF ~b.isReady THEN b
    ELSE [b EXCEPT !.sent = Append(@, UserCommand(b.clientId, text))]

\* A handler run once by each of n listeners
RECURSIVE RunOnMessage(_, _, _)
RunOnMessage(b, data, n) ==
    IF n = 0 THEN b ELSE RunOnMessage(Blessed_onMessage(b, data), data, n - 1)
RECURSIVE RunOnDisconnect(_, _)
RunOnDisconnect(b, n) == IF n = 0 THEN b ELSE RunOnDisconnect(Blessed_onDisconnect(b), n - 1)


\* The 'connect' listener of connectToSocket: it calls ipc.of.world.on(...)
\* for 'disconnect', 'message' and 'error' each time it runs
ListenersAfterConnect(n) == n + 1

BlessedCommit(b, op, arg) ==
    /\ bConnected' = b.connected
    /\ bReady' = b.isReady
    /\ bClientId' = b.clientId
    /\ bReadOnly' = b.readOnly
    /\ bTask' = b.currentTask
    /\ bSent' = b.sent
    /\ bLast' = [op |-> op, arg |-> arg]

BlessedFrame ==
    UNCHANGED <<srvVars, daemonVars, linkVars, procVars, cliVars, argv, parsed, mainVars,
                sessVars, wireVars, startVars>>

\* The 'connect' event of ipc.of.world: the first connection or a retry succeeds
K_connect ==
    /\ bLink = "down" /\ bListeners < MaxConnects
    /\ bLink' = "up"
    /\ bListeners' = ListenersAfterConnect(bListeners)
    /\ bAcked' = Null
    /\ bRuns' = 1
    /\ BlessedCommit(Blessed_onConnect(Blessed), "connect", NoEnvelope)
    /\ BlessedFrame

\* The 'disconnect' event: every registered listener runs onDisconnect
K_disconnect ==
    /\ bLink = "up"
    /\ bLink' = "down"
    /\ bAcked' = Null
    /\ bRuns' = bListeners
    /\ BlessedCommit(RunOnDisconnect(Blessed, bListeners), "disconnect", NoEnvelope)
    /\ UNCHANGED bListeners
    /\ BlessedFrame

\* The 'message' event: every registered listener runs onMessage(data)
K_message(data) ==
    /\ bLink = "up"
    /\ bAcked' = IF data.type = "Ack" THEN data.clientId ELSE bAcked
    /\ bRuns' = bListeners
    /\ BlessedCommit(RunOnMessage(Blessed, data, bListeners), "message", data)
    /\ UNCHANGED <<bLink, bListeners>>
    /\ BlessedFrame

\* The send key with `text` in the input box
K_send(text) ==
    /\ bRuns' = 1
    /\ BlessedCommit(Blessed_sendMessage(Blessed, text), "send",
                     [NoEnvelope EXCEPT !.arg = text])
    /\ UNCHANGED <<bLink, bListeners, bAcked>>
    /\ BlessedFrame

BlessedNext ==
    \/ K_connect
    \/ K_disconnect
    \/ \E data \in BlessedInputs : K_message(data)
    \/ \E text \in {"", "hi"} : K_send(text)

SpecBlessed == Init /\ [][BlessedNext]_vars

\* --- C34 ---
UserCommands == {i \in 1..Len(bSent) : bSent[i].text # "init"}

\* C34: sendMessage emits a command only while the client is connected and
\* has received an Ack on the current connection, and the command carries
\* the clientId of that Ack, never null and never that of an earlier
\* connection.
C34_CommandOnlyWhenAcked ==
    UserCommands # {} =>
        /\ bLast.op = "send"
        /\ bConnected /\ bReady /\ bLink = "up"
        /\ bAcked # Null
        /\ \A i \in UserCommands : bSent[i].clientId = bAcked /\ Truthy(bSent[i].clientId)

\* C34 witness: a command sent on the second connection, after its Ack
C34_Witness ==
    /\ UserCommands # {}
    /\ bListeners = 2
    /\ bSent[1].clientId = BlessedId

\* --- C35 ---
\* C35: each message and each disconnect is handled once, whatever the number
\* of connect events before it.
C35_HandledOncePerEvent ==
    bLast.op \in {"message", "disconnect"} => bRuns = 1

\* What holds on the first connection
HandledOnceOnFirstConnection ==
    (bLast.op \in {"message", "disconnect"} /\ bListeners = 1) => bRuns = 1

\* ======================================================================
\* The dedup cache against a cache that never deletes an entry
\* ======================================================================

\* The last handler run was a dedup call
LastDedupCall == dLast.op \in {"logWithDeduplication", "formatQuestionMessage"}

\* C36: the sweep never changes a decision. Every call of the plain, ask or
\* question path, at non-decreasing times, logs exactly what a daemon whose
\* cache never deletes an entry logs for the same call, and the two caches
\* agree on every later decision about every key.
C36_SweepKeepsDecisions ==
    /\ LastDedupCall => dLog = refLog
    /\ \A key \in DOMAIN refCache : \A k \in 0..NTicks :
          LET t == k * TickMs
          IN  t >= now =>
                /\ ShouldEmit(messageCache, key, t) <=> ShouldEmit(refCache, key, t)
                /\ (key \notin DOMAIN messageCache \/ t - messageCache[key] > questionCooldown)
                      <=> (t - refCache[key] > questionCooldown)

\* C36 witness: a key that was recorded and then deleted by the sweep is
\* called again, and the daemon and the one that never deletes both emit it
C36_Witness ==
    /\ LastDedupCall
    /\ Len(dedupCalls[dLast.arg.key]) >= 2
    /\ ~dLast.arg.cached
    /\ LastDecision(dLast.arg.key).emit
    /\ refLog # <<>> /\ dLog = refLog

====
